---- MODULE Spec2Model ----
(***************************************************************************)
(* Inter-service connectivity layer of custodian-simulator-go:             *)
(*   - the Service Directory (RedisServiceDiscovery) over an expiring      *)
(*     key-value store,                                                    *)
(*   - the Configuration Cache Client (HTTPConfigurationClient),           *)
(*   - the Connection Manager (DefaultInterServiceClientManager).          *)
(*                                                                         *)
(* Durations and instants are counted in units of 30 s: the registry TTL   *)
(* of 90 s is 3 units.  Strings that the code builds with Sprintf are      *)
(* sequences of tokens; a token is a run of characters holding neither     *)
(* ':' nor '*', or one of the two tokens ":" and "*".                      *)
(***************************************************************************)
EXTENDS Integers, Sequences, FiniteSets, TLC

\* ------------------------------------------------------------------ bounds
MaxTime == 4
MaxCalls == 3
\* The clock readings the accounts of the custodian service are named after,
\* and the settlements and transfers of a run.
MaxReadings == 2
MaxSettlements == 2

\* ------------------------------------------------------- program constants
serviceKeyPrefix == "services:"
serviceKeyTTL == 3

\* Values cfg.HealthCheckInterval takes (1 = 30 s, 4 = 120 s); the code
\* accepts any positive duration.
HealthCheckIntervals == {1, 4}
\* Values cfg.CacheTTL takes.
CacheTTLs == {1, 2}

Statuses == {"starting", "healthy", "unhealthy"}

VARIABLES
    now,          \* the wall clock
    store,        \* the expiring key-value store: key -> [data, expiresAt]
    config,       \* *config.Config of this process
    redisClient,  \* sd.redisClient: "nil", "open" or "closed"
    serviceInfo,  \* sd.serviceInfo
    hbpc,         \* position of the StartHeartbeat goroutine
    nextTick,     \* instant of the ticker's next tick
    ctxDone,      \* the heartbeat's governing context is cancelled
    sdLast,       \* the last Service Directory call and what it returned
    usedKeys,     \* every registry key this process has written or deleted
    everWritten,  \* a registry write of this process has succeeded
    hbCovered,    \* the record was registered under a running heartbeat loop
                  \* whose writes have all succeeded since
    remote,       \* the remote configuration service: key -> raw value or "none"
    cache,        \* c.cache: key -> [value, expiresAt]
    cacheHits,    \* c.cacheHits
    cacheMisses,  \* c.cacheMisses
    cfgpc,        \* position of each caller of GetConfiguration
    cfgKey,       \* the key each caller asked for
    cfgLast,      \* the last Configuration Cache Client step and what it returned
    serviceDiscovery,   \* cm.serviceDiscovery: "nil" or "set"
    configClient,       \* cm.configClient: "nil" or "set"
    connections,        \* cm.connections: logical name -> connection
    conns,              \* every *grpc.ClientConn dialed so far: [target, state]
    activeConnections,  \* cm.activeConnections
    totalConnections,   \* cm.totalConnections
    failedConnections,  \* cm.failedConnections
    cmCalls,            \* how many connection requests the manager has served
    cmLast,             \* the last Connection Manager call and what it returned
    healthSrv,          \* the health service's status map: service name -> status
    grpcpc,             \* position of GracefulStop: "running", "stopping" or "stopped"
    stopSet,            \* how many SetServingStatus calls GracefulStop has made
    serve,              \* Serve: "idle", "serving" or "returned"
    checking,           \* the service of the health Check in flight, or "none"
    grpcLast,           \* the last health or metrics request and its answer
    dpc,                \* position of a Disconnect that runs step by step
    stopIssued,         \* Disconnect has sent the stop signal to a started loop
    tickPending,        \* ticker.C holds a tick the loop has not received
    connectionsMutex,   \* cm.connectionsMutex: [writer, readers]
    statsMutex,         \* cm.statsMutex: [writer, readers]
    mcall,               \* each goroutine's call of the manager, step by step
    poolMutex,    \* cm.poolMutex
    cacheMutex,   \* the configuration client's cacheMutex
    cfgStatsMutex, \* the configuration client's statsMutex
    ccall,        \* what each goroutine is doing in the configuration client
    cfgCalls,     \* the GetConfiguration calls made step by step
    accounts,     \* CustodianService.accounts: account ID -> *Account
    balances,     \* CustodianService.balances: account ID -> asset ID -> float64
    unixNano,     \* time.Now().UnixNano()
    ledgerCalls,  \* the settlements and transfers asked for so far
    ledgerLast    \* the last call of the custodian service and what it returned

sdVars == <<config, redisClient, serviceInfo, hbpc, nextTick, ctxDone,
            sdLast, usedKeys, everWritten, hbCovered>>
cfgVars == <<remote, cache, cacheHits, cacheMisses, cfgpc, cfgKey, cfgLast>>
cmRest == <<serviceDiscovery, configClient, connections, conns, activeConnections,
            totalConnections, failedConnections, cmCalls>>
cmVars == <<cmRest, cmLast>>
grpcVars == <<healthSrv, grpcpc, stopSet, serve, checking, grpcLast>>
\* The variables of the components added after the three clients.
hbxVars == <<dpc, stopIssued, tickPending>>
clVars == <<poolMutex, cacheMutex, cfgStatsMutex, ccall, cfgCalls>>
lkVars == <<connectionsMutex, statsMutex, mcall, clVars>>
ledgerVars == <<accounts, balances, unixNano, ledgerCalls, ledgerLast>>
extVars == <<grpcVars, hbxVars, lkVars, ledgerVars>>
vars == <<now, store, sdVars, cfgVars, cmVars, extVars>>

\* ------------------------------------------------------------------ helpers
Range(s) == {s[i] : i \in DOMAIN s}

\* Every enumeration of a finite set without repetition.
Orders(S) ==
    {f \in [1..Cardinality(S) -> S] : \A i, j \in DOMAIN f : f[i] = f[j] => i = j}

\* strconv / %d of the port numbers in use.
Itoa(n) ==
    CASE n = 9094 -> "9094"
      [] n = 8084 -> "8084"
      [] n = 50051 -> "50051"
      [] n = 50052 -> "50052"
      [] OTHER -> "0"

\* ------------------------------------------------------------- ServiceInfo
NoServiceInfo ==
    [Name |-> "", Version |-> "", Host |-> "", GRPCPort |-> 0, HTTPPort |-> 0,
     Status |-> "", LastSeen |-> 0]

NewServiceInfo(cfg, t) ==
    [Name |-> cfg.ServiceName, Version |-> cfg.ServiceVersion,
     Host |-> "localhost", GRPCPort |-> cfg.GRPCPort, HTTPPort |-> cfg.HTTPPort,
     Status |-> "starting", LastSeen |-> t]

\* json.Marshal of a ServiceInfo, and a value that is no JSON at all.
Marshal(info) == [kind |-> "json", obj |-> info]
Garbage == [kind |-> "garbage", obj |-> NoServiceInfo]

\* json.Unmarshal into a ServiceInfo.
Unmarshal(data) ==
    IF data.kind = "json" THEN [err |-> FALSE, val |-> data.obj]
    ELSE [err |-> TRUE, val |-> NoServiceInfo]

\* --------------------------------------------------- the expiring store
\* SET key value EX ttl at instant t.
SetEx(st, key, data, ttl, t) ==
    [k \in DOMAIN st \cup {key} |->
        IF k = key THEN [data |-> data, expiresAt |-> t + ttl] ELSE st[k]]

\* DEL key.
Del(st, key) == [k \in DOMAIN st \ {key} |-> st[k]]

\* A store that never drops a key.
ExpireNever(st, t) == st

\* The store at instant t: a key vanishes once its TTL has elapsed.
Expire(st, t) == [k \in {x \in DOMAIN st : st[x].expiresAt > t} |-> st[k]]

\* Glob matching of a key against a pattern; "*" matches any run of tokens.
RECURSIVE GlobMatch(_, _)
GlobMatch(p, s) ==
    IF p = <<>> THEN s = <<>>
    ELSE IF Head(p) = "*"
         THEN GlobMatch(Tail(p), s) \/ (s /= <<>> /\ GlobMatch(p, Tail(s)))
         ELSE s /= <<>> /\ Head(s) = Head(p) /\ GlobMatch(Tail(p), Tail(s))

\* KEYS pattern.
Keys(st, pattern) == {k \in DOMAIN st : GlobMatch(pattern, k)}

\* ------------------------------------------------------ Service Directory
\* A key that also depends on the record's status.
getServiceKeyWithStatus(info) ==
    <<serviceKeyPrefix, info.Name, ":", info.Host, ":", Itoa(info.GRPCPort), ":",
      info.Status>>

\* fmt.Sprintf("%s%s:%s:%d", serviceKeyPrefix, Name, Host, GRPCPort)
getServiceKey(info) ==
    <<serviceKeyPrefix, info.Name, ":", info.Host, ":", Itoa(info.GRPCPort)>>

\* The key Disconnect deletes.
disconnectKey(info) ==
    <<serviceKeyPrefix, info.Name, ":", info.Host, ":", Itoa(info.GRPCPort)>>

\* A scan pattern that leaves the key prefix out.
discoverPatternNoPrefix(serviceName) == <<serviceName, ":", "*">>

\* fmt.Sprintf("%s%s:*", serviceKeyPrefix, serviceName)
discoverPattern(serviceName) == <<serviceKeyPrefix, serviceName, ":", "*">>

\* The loop of DiscoverServices over the scanned keys: a key whose GET fails
\* (it is in unreadable, or it is gone) or whose value does not parse is
\* skipped.
RECURSIVE collectServices(_, _, _)
collectServices(st, keys, unreadable) ==
    IF keys = <<>> THEN <<>>
    ELSE LET key == Head(keys)
             rest == collectServices(st, Tail(keys), unreadable)
         IN  IF key \in unreadable \/ key \notin DOMAIN st THEN rest
             ELSE IF Unmarshal(st[key].data).err THEN rest
             ELSE <<Unmarshal(st[key].data).val>> \o rest

\* A discovery that fails as a whole on an unreadable or malformed entry.
DiscoverServicesFailFast(st, serviceName, scanErr, keys, unreadable) ==
    IF \/ scanErr
       \/ \E k \in Range(keys) : k \in unreadable \/ Unmarshal(st[k].data).err
    THEN [err |-> TRUE, services |-> <<>>]
    ELSE [err |-> FALSE, services |-> collectServices(st, keys, unreadable)]

\* DiscoverServices: scanErr is the outcome of KEYS, keys its reply.
DiscoverServices(st, serviceName, scanErr, keys, unreadable) ==
    IF scanErr THEN [err |-> TRUE, services |-> <<>>]
    ELSE [err |-> FALSE, services |-> collectServices(st, keys, unreadable)]

\* ------------------------------------------- Configuration Cache Client
ConfigKeys == {"custodian.settlement.timeout_hours", "custodian.storage.backend"}

\* The callers of GetConfiguration that may be in flight at once.
Callers == {1, 2}

\* ConfigurationValue{}
NoConfigurationValue ==
    [Key |-> "", Value |-> "", Type |-> "string", Environment |-> "", LastUpdated |-> 0]

\* The body the service answers for a key it holds.
RemoteValue(key, raw) ==
    [Key |-> key, Value |-> raw,
     Type |-> IF raw \in {"true", "false"} THEN "boolean" ELSE "number",
     Environment |-> "test", LastUpdated |-> 0]

\* What the transport and the service do to a request: the service answers
\* from its state (200 with the value, or 404 for a key it does not have),
\* answers with another status, answers 200 with a body that does not parse,
\* or the transport fails.
FetchOutcomes == {"answer", "status_500", "status_503", "bad_body", "transport_error"}

\* A fetch that reports a missing key like any other bad status.
fetchConfigurationNoNotFound(rem, key, outcome) ==
    IF outcome = "transport_error"
    THEN [err |-> "failed to fetch configuration", value |-> NoConfigurationValue]
    ELSE IF outcome \in {"status_500", "status_503"} \/ rem[key] = "none"
    THEN [err |-> "configuration service returned status", value |-> NoConfigurationValue]
    ELSE IF outcome = "bad_body"
    THEN [err |-> "failed to parse response", value |-> NoConfigurationValue]
    ELSE [err |-> "nil", value |-> RemoteValue(key, rem[key])]

\* fetchConfiguration: outcome is what the transport and the service do.
fetchConfiguration(rem, key, outcome) ==
    IF outcome = "transport_error"
    THEN [err |-> "failed to fetch configuration", value |-> NoConfigurationValue]
    ELSE IF outcome \in {"status_500", "status_503"}
    THEN [err |-> "configuration service returned status", value |-> NoConfigurationValue]
    ELSE IF rem[key] = "none"
    THEN [err |-> "configuration key not found", value |-> NoConfigurationValue]
    ELSE IF outcome = "bad_body"
    THEN [err |-> "failed to parse response", value |-> NoConfigurationValue]
    ELSE [err |-> "nil", value |-> RemoteValue(key, rem[key])]

\* A lookup that serves an entry whatever its expiry.
getCachedValueNoExpiry(c, key, t) ==
    IF key \notin DOMAIN c THEN [found |-> FALSE, value |-> NoConfigurationValue]
    ELSE [found |-> TRUE, value |-> c[key].value]

\* A lookup with the expiry comparison the wrong way round.
getCachedValueInverted(c, key, t) ==
    IF key \notin DOMAIN c THEN [found |-> FALSE, value |-> NoConfigurationValue]
    ELSE IF t <= c[key].expiresAt THEN [found |-> FALSE, value |-> NoConfigurationValue]
    ELSE [found |-> TRUE, value |-> c[key].value]

\* getCachedValue at instant t: time.Now().After(cached.expiresAt) is a miss.
getCachedValue(c, key, t) ==
    IF key \notin DOMAIN c THEN [found |-> FALSE, value |-> NoConfigurationValue]
    ELSE IF t > c[key].expiresAt THEN [found |-> FALSE, value |-> NoConfigurationValue]
    ELSE [found |-> TRUE, value |-> c[key].value]

\* cacheValue at instant t.
cacheValue(c, key, value, t, ttl) ==
    [k \in DOMAIN c \cup {key} |->
        IF k = key THEN [value |-> value, expiresAt |-> t + ttl] ELSE c[k]]

MkConfigLast(op, caller, key, returned, err, value, fromCache, hadEntry) ==
    [op |-> op, caller |-> caller, key |-> key, returned |-> returned, err |-> err,
     value |-> value, fromCache |-> fromCache, hadEntry |-> hadEntry,
     cleared |-> {}, after |-> "none", outcome |-> "none",
     stats |-> [CacheHits |-> 0, CacheMisses |-> 0, CacheSize |-> 0,
                HitRate |-> [num |-> 0, den |-> 1]],
     conv |-> [kind |-> "none", int |-> 0, bool |-> FALSE, str |-> ""]]

\* No Configuration Cache Client step has just been taken.
NoConfigCall ==
    MkConfigLast("none", 0, "", FALSE, "nil", NoConfigurationValue, FALSE, FALSE)

\* The instances other processes of the fleet register under the same key
\* schema.
PeerInfos ==
    { [Name |-> "custodian-simulator", Version |-> "1.0.0", Host |-> "custodian-2",
       GRPCPort |-> 9094, HTTPPort |-> 8084, Status |-> "healthy", LastSeen |-> 0],
      [Name |-> "exchange-simulator", Version |-> "1.0.0", Host |-> "exchange-1",
       GRPCPort |-> 50051, HTTPPort |-> 8084, Status |-> "healthy", LastSeen |-> 0],
      [Name |-> "exchange-simulator", Version |-> "1.0.0", Host |-> "exchange-2",
       GRPCPort |-> 50052, HTTPPort |-> 8084, Status |-> "healthy", LastSeen |-> 0],
      [Name |-> "audit-correlator", Version |-> "1.0.0", Host |-> "audit-1",
       GRPCPort |-> 50051, HTTPPort |-> 8084, Status |-> "healthy", LastSeen |-> 0] }

\* The other instance of this process's own logical name.
SamePeers == {p \in PeerInfos : p.Name = "custodian-simulator"}

\* The logical names callers ask for.
ServiceNames == {"custodian-simulator", "exchange-simulator", "non-existent-service"}

\* redis.ParseURL(cfg.RedisURL) fails.
ParseURLFails(cfg) == cfg.RedisURL = "invalid://url"

Configs ==
    [ServiceName : {"custodian-simulator"}, ServiceVersion : {"1.0.0"},
     RedisURL : {"redis://localhost:6379", "invalid://url"},
     GRPCPort : {9094}, HTTPPort : {8084},
     HealthCheckInterval : HealthCheckIntervals, CacheTTL : CacheTTLs]

MkLast(op, name, err, services, keys, unreadable) ==
    [op |-> op, name |-> name, err |-> err, services |-> services,
     keys |-> keys, unreadable |-> unreadable, scanErr |-> FALSE,
     after |-> "none", faults |-> {}]

\* No Service Directory call has just returned.
NoCall == MkLast("none", "", FALSE, <<>>, <<>>, {})

HeartbeatRunning == hbpc \in {"select", "parked", "send"}

\* ------------------------------------------------------ Connection Manager
\* connectivity.State of a *grpc.ClientConn.
ConnStates == {"IDLE", "CONNECTING", "READY", "TRANSIENT_FAILURE", "SHUTDOWN"}

\* The logical names the manager is asked for by name.
ManagerNames == {"exchange-simulator", "audit-correlator", "non-existent-service"}

\* The instances of the services the manager connects to.
ManagerPeers == {p \in PeerInfos : p.Name \in ManagerNames}

NoError == [type |-> "nil", ServiceName |-> "", Cause |-> ""]

\* An error that is no *ServiceUnavailableError.
plainError(serviceName, cause) ==
    [type |-> "*errors.errorString", ServiceName |-> "", Cause |-> cause]

\* &ServiceUnavailableError{ServiceName: serviceName, Cause: cause}
ServiceUnavailableError(serviceName, cause) ==
    [type |-> "*ServiceUnavailableError", ServiceName |-> serviceName, Cause |-> cause]

IsServiceUnavailableError(err) == err.type = "*ServiceUnavailableError"

\* The health test read as "the state is ready".
connHealthyReadyOnly(state) == state = "READY"

\* A health test that accepts every connection that is not closed.
connHealthyUnlessShutdown(state) == state /= "SHUTDOWN"

\* The health test of a table entry.  Both reads of GetState see one state:
\* transport state changes are steps between the manager's calls.
connHealthy(state) == state = "READY" \/ state = "IDLE"

\* The failure return without incrementFailedConnections.
failureNotCounted(tbl, cs, serviceName, cause, dials) ==
    [connections |-> tbl, conns |-> cs, conn |-> 0,
     err |-> ServiceUnavailableError(serviceName, cause),
     active |-> 0, total |-> 0, failed |-> 0, queries |-> 1, dials |-> dials]

\* incrementFailedConnections and the error return of getServiceConnection,
\* reached after the one discovery query and dials dial attempts.
failure(tbl, cs, serviceName, cause, dials) ==
    [connections |-> tbl, conns |-> cs, conn |-> 0,
     err |-> ServiceUnavailableError(serviceName, cause),
     active |-> 0, total |-> 0, failed |-> 1, queries |-> 1, dials |-> dials]

\* A target made of the record's HTTP port.
dialTargetHTTPPort(service) == <<service.Host, ":", Itoa(service.HTTPPort)>>

\* fmt.Sprintf("%s:%d", service.Host, service.GRPCPort)
dialTarget(service) == <<service.Host, ":", Itoa(service.GRPCPort)>>

\* getServiceConnection on table tbl and connections cs.  disc is what
\* serviceDiscovery.DiscoverServices returns when it is called, dialErr whether
\* grpc.Dial fails and dialState the state grpc.Dial leaves the new connection
\* in.  The result holds the new table and connections, the connection and
\* error returned, the increments of the three counters and how many
\* discovery queries and dials were made.  Connection 0 is nil.
getServiceConnection(tbl, cs, serviceName, disc, dialErr, dialState) ==
    LET exists == serviceName \in DOMAIN tbl
        hit == exists /\ connHealthy(cs[tbl[serviceName]].state)
        cs1 == IF exists /\ ~hit
               THEN [cs EXCEPT ![tbl[serviceName]].state = "SHUTDOWN"]
               ELSE cs
        tbl1 == IF exists /\ ~hit
                THEN [n \in DOMAIN tbl \ {serviceName} |-> tbl[n]]
                ELSE tbl
    IN  IF hit
        THEN [connections |-> tbl, conns |-> cs, conn |-> tbl[serviceName],
              err |-> NoError, active |-> 0, total |-> 0, failed |-> 0,
              queries |-> 0, dials |-> 0]
        ELSE IF disc.err
        THEN failure(tbl1, cs1, serviceName, "service discovery failed", 0)
        ELSE IF Len(disc.services) = 0
        THEN failure(tbl1, cs1, serviceName, "no instances found", 0)
        ELSE LET service == disc.services[1]
                 target == dialTarget(service)
                 conn == Len(cs1) + 1
             IN  IF dialErr
                 THEN failure(tbl1, cs1, serviceName, "failed to connect", 1)
                 ELSE [connections |->
                           [n \in DOMAIN tbl1 \cup {serviceName} |->
                               IF n = serviceName THEN conn ELSE tbl1[n]],
                       conns |-> Append(cs1, [target |-> target, state |-> dialState]),
                       conn |-> conn, err |-> NoError,
                       active |-> 1, total |-> 1, failed |-> 0,
                       queries |-> 1, dials |-> 1]

NoDiscovery == [err |-> FALSE, services |-> << >>]

MkManagerLast(op, name, res, disc, state, activeBefore, after) ==
    [op |-> op, name |-> name, err |-> res.err, conn |-> res.conn,
     queries |-> res.queries, dials |-> res.dials,
     disc |-> IF res.queries = 0 THEN NoDiscovery ELSE disc,
     state |-> state, activeBefore |-> activeBefore, after |-> after,
     faults |-> {}, results |-> << >>, services |-> << >>,
     stats |-> [ActiveConnections |-> 0, TotalConnections |-> 0,
                FailedConnections |-> 0]]

NoResult ==
    [err |-> NoError, conn |-> 0, queries |-> 0, dials |-> 0]

\* No Connection Manager call has just returned.
NoManagerCall == MkManagerLast("none", "", NoResult, NoDiscovery, "none", 0, "none")

\* NewServiceDiscovery(cfg)
SDInit ==
    /\ config \in Configs
    /\ redisClient = "nil"
    /\ serviceInfo = NewServiceInfo(config, 0)
    /\ hbpc = "off"
    /\ nextTick = 0
    /\ ctxDone = FALSE
    /\ sdLast = NoCall
    /\ usedKeys = {}
    /\ everWritten = FALSE
    /\ hbCovered = FALSE

\* RedisServiceDiscovery.Connect
Connect ==
    /\ redisClient = "nil"
    /\ \E pingOk \in BOOLEAN :
         IF ParseURLFails(config)
         THEN /\ redisClient' = redisClient
              /\ sdLast' = MkLast("Connect", "", TRUE, <<>>, <<>>, {})
         ELSE /\ redisClient' = "open"
              /\ sdLast' = MkLast("Connect", "", ~pingOk, <<>>, <<>>, {})
    /\ UNCHANGED <<now, store, config, serviceInfo, hbpc, nextTick, ctxDone, usedKeys, everWritten, hbCovered>>
    /\ UNCHANGED cfgVars
    /\ UNCHANGED cmVars
    /\ UNCHANGED extVars

\* RedisServiceDiscovery.RegisterService; ok is the outcome of the store write.
RegisterService ==
    /\ redisClient /= "nil"
    /\ \E ok \in BOOLEAN :
         LET info == [serviceInfo EXCEPT !.Status = "healthy", !.LastSeen = now]
             serviceKey == getServiceKey(info)
             written == ok /\ redisClient = "open"
         IN  /\ serviceInfo' = info
             /\ usedKeys' = usedKeys \cup {serviceKey}
             /\ store' = IF written
                         THEN SetEx(store, serviceKey, Marshal(info), serviceKeyTTL, now)
                         ELSE store
             /\ everWritten' = (everWritten \/ written)
             /\ hbCovered' = IF written THEN HeartbeatRunning /\ ~ctxDone ELSE hbCovered
             /\ sdLast' = MkLast("RegisterService", "", ~written, <<>>, <<>>, {})
    /\ UNCHANGED <<now, config, redisClient, hbpc, nextTick, ctxDone>>
    /\ UNCHANGED cfgVars
    /\ UNCHANGED cmVars
    /\ UNCHANGED extVars

\* RedisServiceDiscovery.DiscoverServices(serviceName)
Discover(serviceName) ==
    /\ redisClient /= "nil"
    /\ \E scanErr \in BOOLEAN :
       \E keys \in Orders(Keys(store, discoverPattern(serviceName))) :
       \E unreadable \in SUBSET Range(keys) :
         LET failed == scanErr \/ redisClient = "closed"
             res == DiscoverServices(store, serviceName, failed, keys, unreadable)
         IN  sdLast' = [MkLast("DiscoverServices", serviceName, res.err, res.services,
                               IF failed THEN <<>> ELSE keys,
                               IF failed THEN {} ELSE unreadable)
                           EXCEPT !.scanErr = failed,
                                  !.after = IF sdLast.err THEN "none" ELSE sdLast.op]
    /\ UNCHANGED <<now, store, config, redisClient, serviceInfo, hbpc, nextTick,
                   ctxDone, usedKeys, everWritten, hbCovered>>
    /\ UNCHANGED cfgVars
    /\ UNCHANGED cmVars
    /\ UNCHANGED extVars

\* An UpdateServiceStatus that writes the record through to the store.
UpdateServiceStatusWriteThrough(status) ==
    /\ serviceInfo.Status /= status
    /\ serviceInfo' = [serviceInfo EXCEPT !.Status = status]
    /\ store' = IF redisClient = "open"
                THEN SetEx(store, getServiceKey(serviceInfo'), Marshal(serviceInfo'),
                           serviceKeyTTL, now)
                ELSE store
    /\ sdLast' = MkLast("UpdateServiceStatus", "", FALSE, <<>>, <<>>, {})
    /\ UNCHANGED <<now, config, redisClient, hbpc, nextTick, ctxDone, usedKeys, everWritten, hbCovered>>
    /\ UNCHANGED cfgVars
    /\ UNCHANGED cmVars
    /\ UNCHANGED extVars

\* RedisServiceDiscovery.UpdateServiceStatus(status)
UpdateServiceStatus(status) ==
    /\ serviceInfo.Status /= status
    /\ serviceInfo' = [serviceInfo EXCEPT !.Status = status]
    /\ sdLast' = MkLast("UpdateServiceStatus", "", FALSE, <<>>, <<>>, {})
    /\ UNCHANGED <<now, store, config, redisClient, hbpc, nextTick, ctxDone, usedKeys, everWritten, hbCovered>>
    /\ UNCHANGED cfgVars
    /\ UNCHANGED cmVars
    /\ UNCHANGED extVars

\* go sd.StartHeartbeat(ctx): the ticker is created, the loop reaches its select.
StartHeartbeat ==
    /\ hbpc = "off"
    /\ redisClient /= "nil"
    /\ hbpc' = "select"
    /\ nextTick' = now + config.HealthCheckInterval
    /\ hbCovered' = (/\ ~ctxDone
                     /\ getServiceKey(serviceInfo) \in DOMAIN store
                     /\ store[getServiceKey(serviceInfo)].data = Marshal(serviceInfo)
                     /\ serviceInfo.LastSeen = now)
    /\ sdLast' = MkLast("StartHeartbeat", "", FALSE, <<>>, <<>>, {})
    /\ UNCHANGED <<now, store, config, redisClient, serviceInfo, ctxDone, usedKeys, everWritten>>
    /\ UNCHANGED cfgVars
    /\ UNCHANGED cmVars
    /\ UNCHANGED extVars

\* The select of the heartbeat loop with ctx.Done() ready: the loop returns.
HeartbeatCtxDone ==
    /\ hbpc = "select"
    /\ ctxDone
    /\ hbpc' = "done"
    /\ hbCovered' = FALSE
    /\ sdLast' = NoCall
    /\ UNCHANGED <<now, store, config, redisClient, serviceInfo, nextTick, ctxDone, usedKeys, everWritten>>
    /\ UNCHANGED cfgVars
    /\ UNCHANGED cmVars
    /\ UNCHANGED extVars

\* The select of the heartbeat loop with no case ready: the goroutine parks.
HeartbeatPark ==
    /\ hbpc = "select"
    /\ ~ctxDone
    /\ ~tickPending
    /\ hbpc' = "parked"
    /\ sdLast' = NoCall
    /\ UNCHANGED <<now, store, config, redisClient, serviceInfo, nextTick, ctxDone, usedKeys, everWritten, hbCovered>>
    /\ UNCHANGED cfgVars
    /\ UNCHANGED cmVars
    /\ UNCHANGED extVars

\* A loop that returns when its heartbeat has failed.
afterHeartbeatReturnOnError(err) == IF err THEN "done" ELSE "select"

\* The loop after sendHeartbeat has returned: an error is logged, and the loop
\* goes round to its select.
afterHeartbeat(err) == "select"

\* sendHeartbeat; ok is the outcome of the store write, which fails under a
\* cancelled context and on a closed client.
sendHeartbeat ==
    /\ hbpc = "send"
    /\ \E ok \in BOOLEAN :
         LET info == [serviceInfo EXCEPT !.LastSeen = now]
             serviceKey == getServiceKey(info)
             written == ok /\ redisClient = "open" /\ ~ctxDone
         IN  /\ serviceInfo' = info
             /\ usedKeys' = usedKeys \cup {serviceKey}
             /\ store' = IF written
                         THEN SetEx(store, serviceKey, Marshal(info), serviceKeyTTL, now)
                         ELSE store
             /\ everWritten' = (everWritten \/ written)
             /\ hbCovered' = (hbCovered /\ written)
             /\ hbpc' = afterHeartbeat(~written)
    /\ sdLast' = NoCall
    /\ UNCHANGED <<now, config, redisClient, nextTick, ctxDone>>
    /\ UNCHANGED cfgVars
    /\ UNCHANGED cmVars
    /\ UNCHANGED extVars

\* The heartbeat's governing context is cancelled; a parked loop wakes up.
CancelContext ==
    /\ ~ctxDone
    /\ ctxDone' = TRUE
    /\ hbpc' = IF hbpc = "parked" THEN "select" ELSE hbpc
    /\ hbCovered' = FALSE
    /\ sdLast' = NoCall
    /\ UNCHANGED <<now, store, config, redisClient, serviceInfo, nextTick, usedKeys, everWritten>>
    /\ UNCHANGED cfgVars
    /\ UNCHANGED cmVars
    /\ UNCHANGED extVars

\* A Disconnect that hands a failed delete or close to its caller.
disconnectErrPropagated(delFailed, closeFailed) == delFailed \/ closeFailed

\* The error Disconnect returns: a failed delete and a failed close are logged.
disconnectErr(delFailed, closeFailed) == FALSE

\* RedisServiceDiscovery.Disconnect: the stop signal is a non-blocking send,
\* received only by a loop parked in its select; delOk is the outcome of DEL.
serviceDiscoveryDisconnect(delOk) ==
    /\ hbpc' = IF hbpc = "parked" THEN "done" ELSE hbpc
    /\ IF redisClient /= "nil"
       THEN LET serviceKey == disconnectKey(serviceInfo)
            IN  /\ usedKeys' = usedKeys \cup {serviceKey}
                /\ store' = IF delOk /\ redisClient = "open"
                            THEN Del(store, serviceKey) ELSE store
                /\ redisClient' = "closed"
       ELSE UNCHANGED <<usedKeys, store, redisClient>>
    /\ hbCovered' = FALSE

\* A caller of this process invokes Disconnect; closeOk is the outcome of
\* Close.  A client that is already closed fails both calls.
Disconnect ==
    /\ \E delOk \in BOOLEAN, closeOk \in BOOLEAN :
         LET delFailed == redisClient /= "nil" /\ ~(delOk /\ redisClient = "open")
             closeFailed == redisClient /= "nil" /\ ~(closeOk /\ redisClient = "open")
         IN  /\ serviceDiscoveryDisconnect(delOk)
             /\ sdLast' = [MkLast("Disconnect", "",
                                  disconnectErr(delFailed, closeFailed), <<>>, <<>>, {})
                             EXCEPT !.faults = (IF delFailed THEN {"Del"} ELSE {})
                                          \cup (IF closeFailed THEN {"Close"} ELSE {})]
    /\ UNCHANGED <<now, config, serviceInfo, nextTick, ctxDone, everWritten>>
    /\ UNCHANGED cfgVars
    /\ UNCHANGED cmVars
    /\ UNCHANGED extVars

\* Disconnect step by step, next to a running heartbeat loop.  Its first
\* statement: the non-blocking send on stopHeartbeat, which a loop parked in
\* its select receives and which is dropped otherwise.
DisconnectStopHeartbeat ==
    /\ dpc = "idle"
    /\ dpc' = "unregister"
    /\ hbpc' = IF hbpc = "parked" THEN "done" ELSE hbpc
    /\ stopIssued' = (stopIssued \/ hbpc \notin {"off", "done"})
    /\ hbCovered' = FALSE
    /\ sdLast' = NoCall
    /\ UNCHANGED <<now, store, config, redisClient, serviceInfo, nextTick, ctxDone,
                   usedKeys, everWritten, tickPending>>
    /\ UNCHANGED <<cfgVars, cmVars, grpcVars, lkVars, ledgerVars>>

\* Disconnect: the DEL of this process's key; without a client it returns.
DisconnectUnregister ==
    /\ dpc = "unregister"
    /\ IF redisClient = "nil"
       THEN /\ dpc' = "idle"
            /\ sdLast' = MkLast("Disconnect", "", disconnectErr(FALSE, FALSE),
                                <<>>, <<>>, {})
            /\ UNCHANGED <<store, usedKeys>>
       ELSE \E delOk \in BOOLEAN :
              LET serviceKey == disconnectKey(serviceInfo)
              IN  /\ dpc' = "close"
                  /\ usedKeys' = usedKeys \cup {serviceKey}
                  /\ store' = IF delOk /\ redisClient = "open"
                              THEN Del(store, serviceKey) ELSE store
                  /\ sdLast' = [NoCall EXCEPT !.faults =
                                  IF delOk /\ redisClient = "open" THEN {} ELSE {"Del"}]
    /\ UNCHANGED <<now, config, redisClient, serviceInfo, hbpc, nextTick, ctxDone,
                   everWritten, hbCovered, stopIssued, tickPending>>
    /\ UNCHANGED <<cfgVars, cmVars, grpcVars, lkVars, ledgerVars>>

\* Disconnect: the close of the client, and the return; a failed DEL was
\* logged in its own step.
DisconnectClose ==
    /\ dpc = "close"
    /\ dpc' = "idle"
    /\ redisClient' = "closed"
    /\ \E closeOk \in BOOLEAN :
         LET closeFailed == ~(closeOk /\ redisClient = "open")
         IN  sdLast' = [MkLast("Disconnect", "",
                               disconnectErr(FALSE, closeFailed),
                               <<>>, <<>>, {})
                          EXCEPT !.faults = IF closeFailed THEN {"Close"} ELSE {}]
    /\ UNCHANGED <<now, store, config, serviceInfo, hbpc, nextTick, ctxDone, usedKeys,
                   everWritten, hbCovered, stopIssued, tickPending>>
    /\ UNCHANGED <<cfgVars, cmVars, grpcVars, lkVars, ledgerVars>>

\* The select of the heartbeat loop with a tick in ticker.C: the loop takes it.
HeartbeatTick ==
    /\ hbpc = "select"
    /\ tickPending
    /\ hbpc' = "send"
    /\ tickPending' = FALSE
    /\ sdLast' = NoCall
    /\ UNCHANGED <<now, store, config, redisClient, serviceInfo, nextTick, ctxDone,
                   usedKeys, everWritten, hbCovered, dpc, stopIssued>>
    /\ UNCHANGED <<cfgVars, cmVars, grpcVars, lkVars, ledgerVars>>

\* The clock advances by one unit while the loop is not parked: a due tick
\* stays in ticker.C, which holds one tick.
TickBusy ==
    /\ now < MaxTime
    /\ hbpc \in {"select", "send"}
    /\ now' = now + 1
    /\ store' = Expire(store, now')
    /\ IF nextTick = now'
       THEN /\ tickPending' = TRUE
            /\ nextTick' = nextTick + config.HealthCheckInterval
       ELSE UNCHANGED <<tickPending, nextTick>>
    /\ sdLast' = NoCall
    /\ UNCHANGED <<config, redisClient, serviceInfo, hbpc, ctxDone, usedKeys,
                   everWritten, hbCovered, dpc, stopIssued>>
    /\ cfgLast' = NoConfigCall
    /\ UNCHANGED <<remote, cache, cacheHits, cacheMisses, cfgpc, cfgKey>>
    /\ cmLast' = NoManagerCall
    /\ UNCHANGED cmRest
    /\ UNCHANGED <<grpcVars, lkVars, ledgerVars>>

\* The ticker goes on firing after the instant up to which the model counts
\* the clock: a tick wakes the parked loop, and the clock stays at its last
\* counted instant.
TickAtHorizon ==
    /\ now = MaxTime
    /\ hbpc = "parked"
    /\ hbpc' = "send"
    /\ sdLast' = NoCall
    /\ UNCHANGED <<now, store, config, redisClient, serviceInfo, nextTick, ctxDone,
                   usedKeys, everWritten, hbCovered, dpc, stopIssued, tickPending>>
    /\ UNCHANGED <<cfgVars, cmVars, grpcVars, lkVars, ledgerVars>>

\* The clock advances by one unit: expired keys vanish and a due tick wakes
\* the parked heartbeat loop.  The loop handles a tick within the unit.
Tick ==
    /\ now < MaxTime
    /\ hbpc \notin {"select", "send"}
    /\ now' = now + 1
    /\ store' = Expire(store, now')
    /\ IF hbpc = "parked" /\ nextTick = now'
       THEN /\ hbpc' = "send"
            /\ nextTick' = nextTick + config.HealthCheckInterval
       ELSE UNCHANGED <<hbpc, nextTick>>
    /\ sdLast' = NoCall
    /\ UNCHANGED <<config, redisClient, serviceInfo, ctxDone, usedKeys, everWritten, hbCovered>>
    /\ cfgLast' = NoConfigCall
    /\ UNCHANGED <<remote, cache, cacheHits, cacheMisses, cfgpc, cfgKey>>
    /\ cmLast' = NoManagerCall
    /\ UNCHANGED cmRest
    /\ UNCHANGED extVars

\* Another process registers (or writes a value that is no ServiceInfo).
EnvRegister(p, data) ==
    /\ store' = SetEx(store, getServiceKey(p), data, serviceKeyTTL, now)
    /\ sdLast' = NoCall
    /\ UNCHANGED <<now, config, redisClient, serviceInfo, hbpc, nextTick, ctxDone, usedKeys, everWritten, hbCovered>>
    /\ UNCHANGED cfgVars
    /\ cmLast' = NoManagerCall
    /\ UNCHANGED cmRest
    /\ UNCHANGED extVars

\* Another process deregisters.
EnvUnregister(p) ==
    /\ getServiceKey(p) \in DOMAIN store
    /\ store' = Del(store, getServiceKey(p))
    /\ sdLast' = NoCall
    /\ UNCHANGED <<now, config, redisClient, serviceInfo, hbpc, nextTick, ctxDone, usedKeys, everWritten, hbCovered>>
    /\ UNCHANGED cfgVars
    /\ cmLast' = NoManagerCall
    /\ UNCHANGED cmRest
    /\ UNCHANGED extVars

\* NewConfigurationClient(cfg)
ConfigInit ==
    /\ remote \in [ConfigKeys -> {"24"}]
    /\ cache = << >>
    /\ cacheHits = 0
    /\ cacheMisses = 0
    /\ cfgpc = [c \in Callers |-> "idle"]
    /\ cfgKey = [c \in Callers |-> ""]
    /\ cfgLast = NoConfigCall

\* GetConfiguration up to its remote call: the cache lookup and the counters.
GetConfigurationLookup(c, key) ==
    /\ cfgpc[c] = "idle"
    /\ cacheHits + cacheMisses < MaxCalls
    /\ LET cached == getCachedValue(cache, key, now)
           after == IF cfgLast.op = "Disconnect" /\ key \in cfgLast.cleared
                    THEN "Disconnect" ELSE "none"
       IN  IF cached.found
           THEN /\ cacheHits' = cacheHits + 1
                /\ cfgLast' = [MkConfigLast("GetConfiguration", c, key, TRUE, "nil",
                                            cached.value, TRUE, key \in DOMAIN cache)
                                 EXCEPT !.after = after]
                /\ UNCHANGED <<cacheMisses, cfgpc, cfgKey>>
           ELSE /\ cacheMisses' = cacheMisses + 1
                /\ cfgpc' = [cfgpc EXCEPT ![c] = "fetching"]
                /\ cfgKey' = [cfgKey EXCEPT ![c] = key]
                /\ cfgLast' = [MkConfigLast("GetConfiguration", c, key, FALSE, "nil",
                                            NoConfigurationValue, FALSE,
                                            key \in DOMAIN cache)
                                 EXCEPT !.after = after]
                /\ UNCHANGED cacheHits
    /\ UNCHANGED <<now, store, sdVars, cmVars, remote, cache>>
    /\ UNCHANGED extVars

\* GetConfiguration from the answer of its remote call on.
GetConfigurationFetch(c) ==
    /\ cfgpc[c] = "fetching"
    /\ \E outcome \in FetchOutcomes :
         LET key == cfgKey[c]
             got == fetchConfiguration(remote, key, outcome)
         IN  /\ cache' = IF got.err = "nil"
                         THEN cacheValue(cache, key, got.value, now, config.CacheTTL)
                         ELSE cache
             /\ cfgLast' = [MkConfigLast("GetConfiguration", c, key, TRUE, got.err,
                                         got.value, FALSE, key \in DOMAIN cache)
                              EXCEPT !.outcome = outcome]
    /\ cfgpc' = [cfgpc EXCEPT ![c] = "idle"]
    /\ cfgKey' = [cfgKey EXCEPT ![c] = ""]
    /\ UNCHANGED <<now, store, sdVars, cmVars, remote, cacheHits, cacheMisses>>
    /\ UNCHANGED extVars

\* A Disconnect that leaves the cache as it is.
clearCacheKeep(c) == c

\* Disconnect: c.cache = make(map[string]cachedValue)
clearCache(c) == << >>

\* HTTPConfigurationClient.Disconnect
ConfigDisconnect ==
    /\ cache' = clearCache(cache)
    /\ cfgLast' = [MkConfigLast("Disconnect", 0, "", TRUE, "nil", NoConfigurationValue,
                                FALSE, cache /= << >>)
                     EXCEPT !.cleared = DOMAIN cache]
    /\ UNCHANGED <<now, store, sdVars, cmVars, remote, cacheHits, cacheMisses, cfgpc, cfgKey>>
    /\ UNCHANGED extVars

\* Statistics whose rate is hits over misses.
cacheStatsHitsPerMiss(hits, misses, c) ==
    [CacheHits |-> hits, CacheMisses |-> misses,
     CacheSize |-> Cardinality(DOMAIN c),
     HitRate |-> IF misses > 0 THEN [num |-> hits, den |-> misses]
                 ELSE [num |-> 0, den |-> 1]]

\* The CacheStats GetCacheStats builds.  HitRate, the float64 quotient
\* float64(hits) / float64(total), is kept as the fraction num/den; it is 0/1
\* when there has been no lookup.
cacheStats(hits, misses, c) ==
    LET total == hits + misses
    IN  [CacheHits |-> hits, CacheMisses |-> misses,
         CacheSize |-> Cardinality(DOMAIN c),
         HitRate |-> IF total > 0 THEN [num |-> hits, den |-> total]
                     ELSE [num |-> 0, den |-> 1]]

\* HTTPConfigurationClient.GetCacheStats
GetCacheStats ==
    /\ cfgLast' = [MkConfigLast("GetCacheStats", 0, "", TRUE, "nil",
                                NoConfigurationValue, FALSE, FALSE)
                     EXCEPT !.stats = cacheStats(cacheHits, cacheMisses, cache)]
    /\ UNCHANGED <<now, store, sdVars, cmVars, remote, cache, cacheHits, cacheMisses,
                   cfgpc, cfgKey>>
    /\ UNCHANGED extVars

\* The raw texts values are converted from.
ConvTexts ==
    {"24", "48", "-7", "1", "abc", "true", "false", "maybe", "custodian-simulator", ""}

\* The characters of a text.
Chars(text) ==
    CASE text = "24" -> <<"2", "4">>
      [] text = "48" -> <<"4", "8">>
      [] text = "-7" -> <<"-", "7">>
      [] text = "1" -> <<"1">>
      [] text = "abc" -> <<"a", "b", "c">>
      [] text = "" -> << >>
      [] OTHER -> <<"x">>

Digits == {"0", "1", "2", "3", "4", "5", "6", "7", "8", "9"}

DigitValue(ch) ==
    CASE ch = "0" -> 0 [] ch = "1" -> 1 [] ch = "2" -> 2 [] ch = "3" -> 3
      [] ch = "4" -> 4 [] ch = "5" -> 5 [] ch = "6" -> 6 [] ch = "7" -> 7
      [] ch = "8" -> 8 [] ch = "9" -> 9 [] OTHER -> 10

\* The digit loop of strconv.Atoi: n = n*10 + digit, from the left; -1 for a
\* character that is no digit.
RECURSIVE atoiDigits(_, _)
atoiDigits(cs, n) ==
    IF cs = << >> THEN n
    ELSE IF Head(cs) \notin Digits THEN -1
    ELSE atoiDigits(Tail(cs), n * 10 + DigitValue(Head(cs)))

\* strconv.Atoi: an optional sign, then one digit at least and digits only.
Atoi(text) ==
    LET cs == Chars(text)
        signed == cs /= << >> /\ Head(cs) \in {"-", "+"}
        digits == IF signed THEN Tail(cs) ELSE cs
        n == atoiDigits(digits, 0)
    IN  IF digits = << >> \/ n = -1
        THEN [kind |-> "error", int |-> 0, bool |-> FALSE, str |-> "strconv.Atoi"]
        ELSE [kind |-> "int",
              int |-> IF signed /\ Head(cs) = "-" THEN 0 - n ELSE n,
              bool |-> FALSE, str |-> ""]

\* strconv.ParseBool: a switch over the accepted spellings.
ParseBool(text) ==
    IF text \in {"1", "t", "T", "TRUE", "true", "True"}
    THEN [kind |-> "bool", int |-> 0, bool |-> TRUE, str |-> ""]
    ELSE IF text \in {"0", "f", "F", "FALSE", "false", "False"}
    THEN [kind |-> "bool", int |-> 0, bool |-> FALSE, str |-> ""]
    ELSE [kind |-> "error", int |-> 0, bool |-> FALSE, str |-> "strconv.ParseBool"]

\* ConfigurationValue.AsString
AsString(cv) == [kind |-> "string", int |-> 0, bool |-> FALSE, str |-> cv.Value]

\* A conversion that turns text that is no number into 0.
AsIntLenient(cv) ==
    IF Atoi(cv.Value).kind = "error"
    THEN [kind |-> "int", int |-> 0, bool |-> FALSE, str |-> ""]
    ELSE Atoi(cv.Value)

\* ConfigurationValue.AsInt
AsInt(cv) == Atoi(cv.Value)

\* ConfigurationValue.AsBool
AsBool(cv) == ParseBool(cv.Value)

\* The values conversions are applied to: any raw text under either declared type.
ConvValues ==
    [Key : {"custodian.settlement.timeout_hours"}, Value : ConvTexts,
     Type : {"string", "number"},
     Environment : {"test"}, LastUpdated : {0}]

\* A caller converts a ConfigurationValue it holds.
Convert(op, cv) ==
    /\ cfgLast' = [MkConfigLast(op, 0, cv.Key, TRUE, "nil", cv, FALSE, FALSE)
                     EXCEPT !.conv = CASE op = "AsString" -> AsString(cv)
                                       [] op = "AsInt" -> AsInt(cv)
                                       [] op = "AsBool" -> AsBool(cv)]
    /\ UNCHANGED <<now, store, sdVars, cmVars, remote, cache, cacheHits, cacheMisses,
                   cfgpc, cfgKey>>
    /\ UNCHANGED extVars

\* The remote service's value of a key changes, or the key is removed.
EnvSetRemote(key, raw) ==
    /\ remote[key] /= raw
    /\ remote' = [remote EXCEPT ![key] = raw]
    /\ cfgLast' = NoConfigCall
    /\ UNCHANGED <<now, store, sdVars, cmVars, cache, cacheHits, cacheMisses, cfgpc, cfgKey>>
    /\ UNCHANGED extVars

\* NewInterServiceClientManager(cfg)
ManagerInit ==
    /\ serviceDiscovery = "nil"
    /\ configClient = "nil"
    /\ connections = << >>
    /\ conns = << >>
    /\ activeConnections = 0
    /\ totalConnections = 0
    /\ failedConnections = 0
    /\ cmCalls = 0
    /\ cmLast = NoManagerCall

\* An Initialize to which a failed configuration client is fatal too.
initializeErrStrict(sdErr, cfgErr) ==
    IF sdErr \/ cfgErr
    THEN [type |-> "*fmt.wrapError", ServiceName |-> "",
          Cause |-> "failed to connect service discovery"]
    ELSE NoError

\* The error Initialize returns; sdErr and cfgErr are the outcomes of the two
\* Connect calls.
initializeErr(sdErr, cfgErr) ==
    IF sdErr
    THEN [type |-> "*fmt.wrapError", ServiceName |-> "",
          Cause |-> "failed to connect service discovery"]
    ELSE NoError

\* Initialize, called once at start-up: the manager's service discovery is
\* created and connected, then its configuration client, whose failure to
\* connect (healthOk is the outcome of its health request) is only logged.
Initialize ==
    /\ serviceDiscovery = "nil"
    /\ redisClient = "nil"
    /\ serviceDiscovery' = "set"
    /\ \E pingOk \in BOOLEAN, healthOk \in BOOLEAN :
         LET sdErr == ParseURLFails(config) \/ ~pingOk
             cfgErr == ~sdErr /\ ~healthOk
         IN  /\ redisClient' = IF ParseURLFails(config) THEN "nil" ELSE "open"
             /\ configClient' = IF sdErr THEN configClient ELSE "set"
             /\ cmLast' = [MkManagerLast("Initialize", "",
                               [NoResult EXCEPT !.err = initializeErr(sdErr, cfgErr)],
                               NoDiscovery, "none", activeConnections, "none")
                             EXCEPT !.faults =
                                 (IF sdErr THEN {"serviceDiscovery.Connect"} ELSE {})
                                 \cup (IF cfgErr THEN {"configClient.Connect"} ELSE {})]
    /\ UNCHANGED <<connections, conns, activeConnections, totalConnections,
                   failedConnections, cmCalls>>
    /\ UNCHANGED <<now, store, config, serviceInfo, hbpc, nextTick, ctxDone, sdLast,
                   usedKeys, everWritten, hbCovered>>
    /\ UNCHANGED cfgVars
    /\ UNCHANGED extVars

\* A loop over the table that stops at the first Close that fails.
closeAllStopAtFailure(cs, tbl, closeFails) ==
    [i \in DOMAIN cs |->
        IF i \in Range(tbl) /\ closeFails = {}
        THEN [cs[i] EXCEPT !.state = "SHUTDOWN"] ELSE cs[i]]

\* Cleanup's loop over the table: Close is called on every entry; closeFails
\* are the entries whose Close returns an error, which is logged.
closeAll(cs, tbl, closeFails) ==
    [i \in DOMAIN cs |->
        IF i \in Range(tbl) THEN [cs[i] EXCEPT !.state = "SHUTDOWN"] ELSE cs[i]]

\* Cleanup: every table entry is closed, the table is emptied, and the
\* service discovery and the configuration client are disconnected.
Cleanup ==
    /\ \E closeFails \in SUBSET Range(connections) :
         /\ conns' = closeAll(conns, connections, closeFails)
         /\ cmLast' = [MkManagerLast("Cleanup", "", NoResult, NoDiscovery, "none",
                                     activeConnections, "none")
                         EXCEPT !.faults = IF closeFails = {} THEN {} ELSE {"conn.Close"}]
    /\ connections' = << >>
    /\ IF serviceDiscovery /= "nil"
       THEN \E delOk \in BOOLEAN : serviceDiscoveryDisconnect(delOk)
       ELSE UNCHANGED <<hbpc, usedKeys, store, redisClient, hbCovered>>
    /\ cache' = IF configClient /= "nil" THEN clearCache(cache) ELSE cache
    /\ UNCHANGED <<serviceDiscovery, configClient, activeConnections,
                   totalConnections, failedConnections, cmCalls>>
    /\ UNCHANGED <<now, config, serviceInfo, nextTick, ctxDone, sdLast, everWritten>>
    /\ UNCHANGED <<remote, cacheHits, cacheMisses, cfgpc, cfgKey, cfgLast>>
    /\ UNCHANGED extVars

\* GetConnectionStats: a snapshot of the three counters.
GetConnectionStats ==
    /\ cmLast' = [MkManagerLast("GetConnectionStats", "", NoResult, NoDiscovery,
                                "none", activeConnections,
                                IF cmLast.op = "Cleanup" THEN "Cleanup" ELSE "none")
                    EXCEPT !.stats = [ActiveConnections |-> activeConnections,
                                      TotalConnections |-> totalConnections,
                                      FailedConnections |-> failedConnections]]
    /\ UNCHANGED cmRest
    /\ UNCHANGED <<now, store, sdVars, cfgVars>>
    /\ UNCHANGED extVars

\* Everything cm.serviceDiscovery.DiscoverServices(serviceName) can return in
\* the current state: over the outcome of the scan (an error on a closed
\* client), the order of its reply and the entries whose read fails.
discoveryResults(serviceName) ==
    UNION { UNION { { DiscoverServices(store, serviceName,
                                       scanFails \/ redisClient = "closed",
                                       keys, unreadable) :
                        unreadable \in SUBSET Range(keys) } :
                    keys \in Orders(Keys(store, discoverPattern(serviceName))) } :
            scanFails \in BOOLEAN }

\* One of the three accessors: getServiceConnection(serviceName) and the
\* wrapping of its connection.  The manager's service discovery must have a
\* client (the call panics otherwise).
getClient(op, serviceName) ==
    /\ serviceDiscovery /= "nil"
    /\ redisClient /= "nil"
    /\ cmCalls < MaxCalls
    /\ \E disc \in discoveryResults(serviceName) :
       \E dialErr \in BOOLEAN :
       \E dialState \in (IF dialErr THEN {"none"} ELSE {"IDLE", "CONNECTING"}) :
         LET res == getServiceConnection(connections, conns, serviceName, disc,
                                         dialErr, dialState)
         IN  /\ connections' = res.connections
             /\ conns' = res.conns
             /\ activeConnections' = activeConnections + res.active
             /\ totalConnections' = totalConnections + res.total
             /\ failedConnections' = failedConnections + res.failed
             /\ cmLast' = MkManagerLast(op, serviceName, res, disc,
                              IF serviceName \in DOMAIN connections
                              THEN conns[connections[serviceName]].state ELSE "none",
                              activeConnections,
                              IF cmLast.name = serviceName /\ cmLast.dials = 1
                                   /\ cmLast.err = NoError
                              THEN "dial" ELSE "none")
    /\ cmCalls' = cmCalls + 1
    /\ UNCHANGED <<serviceDiscovery, configClient>>
    /\ UNCHANGED <<now, store, sdVars, cfgVars>>
    /\ UNCHANGED extVars

GetExchangeSimulatorClient == getClient("GetExchangeSimulatorClient", "exchange-simulator")

GetAuditCorrelatorClient == getClient("GetAuditCorrelatorClient", "audit-correlator")

GetClientByName(serviceName) == getClient("GetClientByName", serviceName)

\* The names the manager's DiscoverServices looks for, in the order of its loop.
serviceTypes ==
    <<"exchange-simulator", "audit-correlator", "custodian-simulator", "risk-monitor">>

\* A loop that gives up at the first name whose discovery fails.
allServicesFailFast(results) ==
    IF \E i \in DOMAIN results : results[i].err
    THEN [err |-> plainError("", "failed to discover services"), services |-> << >>]
    ELSE [err |-> NoError,
          services |-> results[1].services \o results[2].services
                         \o results[3].services \o results[4].services]

\* The loop of the manager's DiscoverServices over the per-name results: the
\* services of a name whose discovery failed are not appended.
RECURSIVE appendServices(_)
appendServices(results) ==
    IF results = << >> THEN << >>
    ELSE (IF Head(results).err THEN << >> ELSE Head(results).services)
             \o appendServices(Tail(results))

allServices(results) == [err |-> NoError, services |-> appendServices(results)]

\* DefaultInterServiceClientManager.DiscoverServices.  Without a service
\* discovery it returns an error; with one, each name is looked up in turn
\* (the lookup panics if the service discovery has no store client).
ManagerDiscoverServices ==
    /\ IF serviceDiscovery = "nil"
       THEN cmLast' = MkManagerLast("DiscoverServices", "",
                          [NoResult EXCEPT !.err =
                              [type |-> "*errors.errorString", ServiceName |-> "",
                               Cause |-> "service discovery not initialized"]],
                          NoDiscovery, "none", activeConnections, "none")
       ELSE /\ redisClient /= "nil"
            /\ \E r1 \in discoveryResults(serviceTypes[1]) :
               \E r2 \in discoveryResults(serviceTypes[2]) :
               \E r3 \in discoveryResults(serviceTypes[3]) :
               \E r4 \in discoveryResults(serviceTypes[4]) :
                 LET results == <<r1, r2, r3, r4>>
                     all == allServices(results)
                 IN  cmLast' = [MkManagerLast("DiscoverServices", "",
                                    [NoResult EXCEPT !.err = all.err,
                                                     !.queries = Len(results)],
                                    NoDiscovery, "none", activeConnections, "none")
                                  EXCEPT !.results = results,
                                         !.services = all.services]
    /\ UNCHANGED cmRest
    /\ UNCHANGED <<now, store, sdVars, cfgVars>>
    /\ UNCHANGED extVars

\* The transport of an open connection changes state.
ConnStateChange(conn, state) ==
    /\ conn \in DOMAIN conns
    /\ conns[conn].state \notin {"SHUTDOWN", state}
    /\ conns' = [conns EXCEPT ![conn].state = state]
    /\ cmLast' = NoManagerCall
    /\ UNCHANGED <<serviceDiscovery, configClient, connections, activeConnections,
                   totalConnections, failedConnections, cmCalls>>
    /\ UNCHANGED <<now, store, sdVars, cfgVars>>
    /\ UNCHANGED extVars

\* ------------------------------- Connection Manager, statement by statement
\* The goroutines that call the manager.
Goroutines == {1, 2}

\* A sync.RWMutex: the goroutine that holds it locked (0 for none) and the
\* goroutines that hold it read-locked.
NewRWMutex == [writer |-> 0, readers |-> {}]

\* Lock returns when no goroutine holds the mutex, RLock when none holds it locked.
CanLock(m) == m.writer = 0 /\ m.readers = {}
CanRLock(m) == m.writer = 0

\* A Lock that returns without taking the mutex.
LockNotTaken(m, g) == m

Lock(m, g) == [m EXCEPT !.writer = g]
Unlock(m, g) == [m EXCEPT !.writer = 0]
RLock(m, g) == [m EXCEPT !.readers = @ \cup {g}]
RUnlock(m, g) == [m EXCEPT !.readers = @ \ {g}]

\* A goroutine outside the manager.
NoManagerActivity ==
    [pc |-> "idle", op |-> "none", name |-> "", conn |-> 0, err |-> NoError,
     queries |-> 0, dials |-> 0, service |-> NoServiceInfo, state |-> "none"]

\* A goroutine outside the configuration client.
NoConfigActivity ==
    [pc |-> "idle", op |-> "none", key |-> "", found |-> FALSE,
     value |-> NoConfigurationValue]

LocksInit ==
    /\ connectionsMutex = NewRWMutex
    /\ statsMutex = NewRWMutex
    /\ mcall = [g \in Goroutines |-> NoManagerActivity]
    /\ poolMutex = NewRWMutex
    /\ cacheMutex = NewRWMutex
    /\ cfgStatsMutex = NewRWMutex
    /\ ccall = [g \in Goroutines |-> NoConfigActivity]
    /\ cfgCalls = 0

\* What the environment and the other components leave alone in a step of
\* the manager.
mgrFrame ==
    /\ cfgLast' = NoConfigCall
    /\ UNCHANGED <<now, sdVars, remote, cache, cacheHits, cacheMisses, cfgpc, cfgKey,
                   grpcVars, hbxVars, ledgerVars>>

\* getServiceConnection: cm.connectionsMutex.Lock()
getServiceConnectionLock(g, op, serviceName) ==
    /\ mcall[g].pc = "idle"
    /\ ccall[g].pc = "idle"
    /\ serviceDiscovery /= "nil"
    /\ redisClient /= "nil"
    /\ cmCalls + cfgCalls < MaxCalls
    /\ CanLock(connectionsMutex)
    /\ connectionsMutex' = Lock(connectionsMutex, g)
    /\ mcall' = [mcall EXCEPT ![g] = [NoManagerActivity EXCEPT
                    !.pc = "check", !.op = op, !.name = serviceName]]
    /\ cmCalls' = cmCalls + 1
    /\ cmLast' = NoManagerCall
    /\ UNCHANGED <<serviceDiscovery, configClient, connections, conns,
                   activeConnections, totalConnections, failedConnections>>
    /\ UNCHANGED <<store, statsMutex>>
    /\ mgrFrame
    /\ UNCHANGED clVars

\* getServiceConnection: the look at the table; a healthy entry is returned,
\* an unhealthy one is closed and deleted.
getServiceConnectionCheck(g) ==
    /\ mcall[g].pc = "check"
    /\ LET serviceName == mcall[g].name
           exists == serviceName \in DOMAIN connections
           state == IF exists THEN conns[connections[serviceName]].state ELSE "none"
       IN  IF exists /\ connHealthy(state)
           THEN /\ mcall' = [mcall EXCEPT ![g].pc = "return", ![g].state = state,
                                          ![g].conn = connections[serviceName]]
                /\ UNCHANGED <<connections, conns>>
           ELSE /\ mcall' = [mcall EXCEPT ![g].pc = "discover", ![g].state = state]
                /\ conns' = IF exists
                            THEN [conns EXCEPT ![connections[serviceName]].state =
                                                   "SHUTDOWN"]
                            ELSE conns
                /\ connections' = [n \in DOMAIN connections \ {serviceName} |->
                                      connections[n]]
    /\ cmLast' = NoManagerCall
    /\ UNCHANGED <<serviceDiscovery, configClient, activeConnections,
                   totalConnections, failedConnections, cmCalls>>
    /\ UNCHANGED <<store, connectionsMutex, statsMutex>>
    /\ mgrFrame
    /\ UNCHANGED clVars

\* getServiceConnection: cm.serviceDiscovery.DiscoverServices and the tests
\* of its result.
getServiceConnectionDiscover(g) ==
    /\ mcall[g].pc = "discover"
    /\ \E disc \in discoveryResults(mcall[g].name) :
         mcall' = [mcall EXCEPT ![g] =
            IF disc.err
            THEN [@ EXCEPT !.pc = "incrementFailedConnections", !.queries = 1,
                    !.err = ServiceUnavailableError(mcall[g].name, "service discovery failed")]
            ELSE IF Len(disc.services) = 0
            THEN [@ EXCEPT !.pc = "incrementFailedConnections", !.queries = 1,
                    !.err = ServiceUnavailableError(mcall[g].name, "no instances found")]
            ELSE [@ EXCEPT !.pc = "dial", !.queries = 1,
                    !.service = disc.services[1]]]
    /\ cmLast' = NoManagerCall
    /\ UNCHANGED cmRest
    /\ UNCHANGED <<store, connectionsMutex, statsMutex>>
    /\ mgrFrame
    /\ UNCHANGED clVars

\* getServiceConnection: grpc.Dial of the first record's target.
getServiceConnectionDial(g) ==
    /\ mcall[g].pc = "dial"
    /\ \E dialErr \in BOOLEAN :
       \E dialState \in (IF dialErr THEN {"none"} ELSE {"IDLE", "CONNECTING"}) :
         IF dialErr
         THEN /\ mcall' = [mcall EXCEPT ![g].pc = "incrementFailedConnections",
                             ![g].dials = 1,
                             ![g].err = ServiceUnavailableError(mcall[g].name,
                                                                "failed to connect")]
              /\ UNCHANGED <<connections, conns>>
         ELSE LET conn == Len(conns) + 1
              IN  /\ conns' = Append(conns, [target |-> dialTarget(mcall[g].service),
                                             state |-> dialState])
                  /\ mcall' = [mcall EXCEPT ![g].pc = "store",
                                 ![g].dials = 1, ![g].conn = conn]
    /\ cmLast' = NoManagerCall
    /\ UNCHANGED <<serviceDiscovery, configClient, connections, activeConnections,
                   totalConnections, failedConnections, cmCalls>>
    /\ UNCHANGED <<store, connectionsMutex, statsMutex>>
    /\ mgrFrame
    /\ UNCHANGED clVars

\* getServiceConnection: cm.connections[serviceName] = conn
getServiceConnectionStore(g) ==
    /\ mcall[g].pc = "store"
    /\ connections' = [n \in DOMAIN connections \cup {mcall[g].name} |->
                          IF n = mcall[g].name THEN mcall[g].conn ELSE connections[n]]
    /\ mcall' = [mcall EXCEPT ![g].pc = "incrementActiveConnections"]
    /\ cmLast' = NoManagerCall
    /\ UNCHANGED <<serviceDiscovery, configClient, conns, activeConnections,
                   totalConnections, failedConnections, cmCalls>>
    /\ UNCHANGED <<store, connectionsMutex, statsMutex>>
    /\ mgrFrame
    /\ UNCHANGED clVars

\* The three increment functions a goroutine can be about to enter.
IncrementFunctions ==
    {"incrementActiveConnections", "incrementTotalConnections",
     "incrementFailedConnections"}

\* The first statement of an increment function: cm.statsMutex.Lock()
incrementLock(g) ==
    /\ mcall[g].pc \in IncrementFunctions
    /\ CanLock(statsMutex)
    /\ statsMutex' = Lock(statsMutex, g)
    /\ mcall' = [mcall EXCEPT ![g].pc =
                    CASE @ = "incrementActiveConnections" -> "activeConnections++"
                      [] @ = "incrementTotalConnections" -> "totalConnections++"
                      [] @ = "incrementFailedConnections" -> "failedConnections++"]
    /\ cmLast' = NoManagerCall
    /\ UNCHANGED cmRest
    /\ UNCHANGED <<store, connectionsMutex>>
    /\ mgrFrame
    /\ UNCHANGED clVars

\* incrementActiveConnections: the increment and the deferred Unlock.
incrementActiveConnections(g) ==
    /\ mcall[g].pc = "activeConnections++"
    /\ activeConnections' = activeConnections + 1
    /\ statsMutex' = Unlock(statsMutex, g)
    /\ mcall' = [mcall EXCEPT ![g].pc = "incrementTotalConnections"]
    /\ cmLast' = NoManagerCall
    /\ UNCHANGED <<serviceDiscovery, configClient, connections, conns,
                   totalConnections, failedConnections, cmCalls>>
    /\ UNCHANGED <<store, connectionsMutex>>
    /\ mgrFrame
    /\ UNCHANGED clVars

\* incrementTotalConnections: the increment and the deferred Unlock.
incrementTotalConnections(g) ==
    /\ mcall[g].pc = "totalConnections++"
    /\ totalConnections' = totalConnections + 1
    /\ statsMutex' = Unlock(statsMutex, g)
    /\ mcall' = [mcall EXCEPT ![g].pc = "return"]
    /\ cmLast' = NoManagerCall
    /\ UNCHANGED <<serviceDiscovery, configClient, connections, conns,
                   activeConnections, failedConnections, cmCalls>>
    /\ UNCHANGED <<store, connectionsMutex>>
    /\ mgrFrame
    /\ UNCHANGED clVars

\* incrementFailedConnections: the increment and the deferred Unlock.
incrementFailedConnections(g) ==
    /\ mcall[g].pc = "failedConnections++"
    /\ failedConnections' = failedConnections + 1
    /\ statsMutex' = Unlock(statsMutex, g)
    /\ mcall' = [mcall EXCEPT ![g].pc = "return"]
    /\ cmLast' = NoManagerCall
    /\ UNCHANGED <<serviceDiscovery, configClient, connections, conns,
                   activeConnections, totalConnections, cmCalls>>
    /\ UNCHANGED <<store, connectionsMutex>>
    /\ mgrFrame
    /\ UNCHANGED clVars

\* getServiceConnection returns: the deferred cm.connectionsMutex.Unlock()
getServiceConnectionReturn(g) ==
    /\ mcall[g].pc = "return"
    /\ connectionsMutex' = Unlock(connectionsMutex, g)
    /\ cmLast' = MkManagerLast(mcall[g].op, mcall[g].name,
                      [err |-> mcall[g].err, conn |-> mcall[g].conn,
                       queries |-> mcall[g].queries, dials |-> mcall[g].dials],
                      NoDiscovery, mcall[g].state, activeConnections, "none")
    /\ mcall' = [mcall EXCEPT ![g] = NoManagerActivity]
    /\ UNCHANGED cmRest
    /\ UNCHANGED <<store, statsMutex>>
    /\ mgrFrame
    /\ UNCHANGED clVars

\* A GetConnectionStats that goes through the table's mutex first.
GetConnectionStatsViaTable(g) ==
    /\ mcall[g].pc = "idle"
    /\ ccall[g].pc = "idle"
    /\ CanRLock(connectionsMutex)
    /\ CanRLock(statsMutex)
    /\ statsMutex' = RLock(statsMutex, g)
    /\ mcall' = [mcall EXCEPT ![g] = [NoManagerActivity EXCEPT
                    !.pc = "stats", !.op = "GetConnectionStats"]]
    /\ cmLast' = NoManagerCall
    /\ UNCHANGED cmRest
    /\ UNCHANGED <<store, connectionsMutex>>
    /\ mgrFrame
    /\ UNCHANGED clVars

\* Where the goroutine that holds the table's mutex locked is in its call.
tableHolderAt ==
    IF connectionsMutex.writer = 0 THEN "none" ELSE mcall[connectionsMutex.writer].pc

\* GetConnectionStats: cm.statsMutex.RLock(); the call notes where the holder
\* of the table's mutex is as it starts.
GetConnectionStatsRLock(g) ==
    /\ mcall[g].pc = "idle"
    /\ ccall[g].pc = "idle"
    /\ CanRLock(statsMutex)
    /\ statsMutex' = RLock(statsMutex, g)
    /\ mcall' = [mcall EXCEPT ![g] = [NoManagerActivity EXCEPT
                    !.pc = "stats", !.op = "GetConnectionStats",
                    !.state = tableHolderAt]]
    /\ cmLast' = NoManagerCall
    /\ UNCHANGED cmRest
    /\ UNCHANGED <<store, connectionsMutex>>
    /\ mgrFrame
    /\ UNCHANGED clVars

\* GetConnectionStats: the read of the counters and the deferred RUnlock.
GetConnectionStatsRead(g) ==
    /\ mcall[g].pc = "stats"
    /\ statsMutex' = RUnlock(statsMutex, g)
    /\ cmLast' = [MkManagerLast("GetConnectionStats", "", NoResult, NoDiscovery,
                                mcall[g].state, activeConnections, tableHolderAt)
                    EXCEPT !.stats = [ActiveConnections |-> activeConnections,
                                      TotalConnections |-> totalConnections,
                                      FailedConnections |-> failedConnections]]
    /\ mcall' = [mcall EXCEPT ![g] = NoManagerActivity]
    /\ UNCHANGED cmRest
    /\ UNCHANGED <<store, connectionsMutex>>
    /\ mgrFrame
    /\ UNCHANGED clVars

\* Cleanup: cm.connectionsMutex.Lock()
CleanupLock(g) ==
    /\ mcall[g].pc = "idle"
    /\ ccall[g].pc = "idle"
    /\ CanLock(connectionsMutex)
    /\ connectionsMutex' = Lock(connectionsMutex, g)
    /\ mcall' = [mcall EXCEPT ![g] = [NoManagerActivity EXCEPT
                    !.pc = "close", !.op = "Cleanup"]]
    /\ cmLast' = NoManagerCall
    /\ UNCHANGED cmRest
    /\ UNCHANGED <<store, statsMutex>>
    /\ mgrFrame
    /\ UNCHANGED clVars

\* Cleanup: the loop that closes the table's connections, and the new table.
CleanupClose(g) ==
    /\ mcall[g].pc = "close"
    /\ \E closeFails \in SUBSET Range(connections) :
         conns' = closeAll(conns, connections, closeFails)
    /\ connections' = << >>
    /\ mcall' = [mcall EXCEPT ![g].pc = "poolLock"]
    /\ cmLast' = NoManagerCall
    /\ UNCHANGED <<serviceDiscovery, configClient, activeConnections,
                   totalConnections, failedConnections, cmCalls>>
    /\ UNCHANGED <<store, connectionsMutex, statsMutex>>
    /\ mgrFrame
    /\ UNCHANGED clVars

\* Cleanup: cm.poolMutex.Lock()
CleanupPoolLock(g) ==
    /\ mcall[g].pc = "poolLock"
    /\ CanLock(poolMutex)
    /\ poolMutex' = Lock(poolMutex, g)
    /\ mcall' = [mcall EXCEPT ![g].pc = "pool"]
    /\ cmLast' = NoManagerCall
    /\ UNCHANGED cmRest
    /\ UNCHANGED <<store, connectionsMutex, statsMutex>>
    /\ mgrFrame
    /\ UNCHANGED <<cacheMutex, cfgStatsMutex, ccall, cfgCalls>>

\* Cleanup: the pools, which hold no connection, are replaced by an empty map,
\* and cm.poolMutex.Unlock()
CleanupPoolUnlock(g) ==
    /\ mcall[g].pc = "pool"
    /\ poolMutex' = Unlock(poolMutex, g)
    /\ mcall' = [mcall EXCEPT ![g].pc = "disconnect"]
    /\ cmLast' = NoManagerCall
    /\ UNCHANGED cmRest
    /\ UNCHANGED <<store, connectionsMutex, statsMutex>>
    /\ mgrFrame
    /\ UNCHANGED <<cacheMutex, cfgStatsMutex, ccall, cfgCalls>>

\* Cleanup: cm.serviceDiscovery.Disconnect(ctx)
CleanupDisconnect(g) ==
    /\ mcall[g].pc = "disconnect"
    /\ IF serviceDiscovery /= "nil"
       THEN \E delOk \in BOOLEAN : serviceDiscoveryDisconnect(delOk)
       ELSE UNCHANGED <<hbpc, usedKeys, store, redisClient, hbCovered>>
    /\ mcall' = [mcall EXCEPT ![g].pc = "configDisconnect"]
    /\ cmLast' = NoManagerCall
    /\ UNCHANGED cmRest
    /\ UNCHANGED <<now, config, serviceInfo, nextTick, ctxDone, sdLast, everWritten>>
    /\ cfgLast' = NoConfigCall
    /\ UNCHANGED <<remote, cache, cacheHits, cacheMisses, cfgpc, cfgKey>>
    /\ UNCHANGED <<connectionsMutex, statsMutex, grpcVars, hbxVars, clVars, ledgerVars>>

\* Cleanup: cm.configClient.Disconnect(ctx) takes c.cacheMutex.Lock(); without
\* a configuration client Cleanup returns.
CleanupConfigDisconnect(g) ==
    /\ mcall[g].pc = "configDisconnect"
    /\ IF configClient = "nil"
       THEN /\ connectionsMutex' = Unlock(connectionsMutex, g)
            /\ mcall' = [mcall EXCEPT ![g] = NoManagerActivity]
            /\ cmLast' = MkManagerLast("Cleanup", "", NoResult, NoDiscovery, "none",
                                       activeConnections, "none")
            /\ UNCHANGED cacheMutex
       ELSE /\ CanLock(cacheMutex)
            /\ cacheMutex' = Lock(cacheMutex, g)
            /\ mcall' = [mcall EXCEPT ![g].pc = "configClear"]
            /\ cmLast' = NoManagerCall
            /\ UNCHANGED connectionsMutex
    /\ UNCHANGED cmRest
    /\ UNCHANGED <<store, statsMutex>>
    /\ mgrFrame
    /\ UNCHANGED <<poolMutex, cfgStatsMutex, ccall, cfgCalls>>

\* Cleanup: the configuration client's cache is replaced by an empty map,
\* c.cacheMutex.Unlock(), and Cleanup returns, unlocking the table's mutex.
CleanupConfigClear(g) ==
    /\ mcall[g].pc = "configClear"
    /\ cache' = clearCache(cache)
    /\ cacheMutex' = Unlock(cacheMutex, g)
    /\ connectionsMutex' = Unlock(connectionsMutex, g)
    /\ mcall' = [mcall EXCEPT ![g] = NoManagerActivity]
    /\ cmLast' = MkManagerLast("Cleanup", "", NoResult, NoDiscovery, "none",
                               activeConnections, "none")
    /\ UNCHANGED cmRest
    /\ UNCHANGED <<now, store, sdVars, grpcVars, hbxVars, statsMutex, ledgerVars>>
    /\ cfgLast' = NoConfigCall
    /\ UNCHANGED <<remote, cacheHits, cacheMisses, cfgpc, cfgKey>>
    /\ UNCHANGED <<poolMutex, cfgStatsMutex, ccall, cfgCalls>>

\* ------------------------------------------------------------ gRPC server

\* The services NewCustodianGRPCServer and GracefulStop set a status for, in
\* the order of the calls.
healthServices(cfg) == <<"", cfg.ServiceName, "custodian", "settlement">>

\* The services a health client asks for.
CheckedServices == {"", "custodian-simulator", "custodian", "settlement", "unknown"}

\* health.Server.SetServingStatus
SetServingStatus(srv, service, status) ==
    [n \in DOMAIN srv \cup {service} |-> IF n = service THEN status ELSE srv[n]]

RECURSIVE setAll(_, _, _)
setAll(srv, services, status) ==
    IF services = << >> THEN srv
    ELSE setAll(SetServingStatus(srv, Head(services), status), Tail(services), status)

NoGrpcCall == [op |-> "none", service |-> "", status |-> "none", err |-> "nil"]

\* NewCustodianGRPCServer
GrpcInit ==
    /\ healthSrv = setAll(<< >>, healthServices(config), "SERVING")
    /\ grpcpc = "running"
    /\ stopSet = 0
    /\ serve = "idle"
    /\ checking = "none"
    /\ grpcLast = NoGrpcCall

\* CustodianGRPCServer.Serve: the server accepts connections, or returns at
\* once when it is stopped already.
Serve ==
    /\ serve = "idle"
    /\ serve' = IF grpcpc = "stopped" THEN "returned" ELSE "serving"
    /\ grpcLast' = [NoGrpcCall EXCEPT !.op = "Serve",
                      !.err = IF grpcpc = "stopped" THEN "ErrServerStopped" ELSE "nil"]
    /\ UNCHANGED <<healthSrv, grpcpc, stopSet, checking>>
    /\ UNCHANGED <<now, store, sdVars, cfgVars, cmVars, hbxVars, lkVars, ledgerVars>>

\* A client sends a health Check of a service to the serving server.
CheckRequest(service) ==
    /\ serve = "serving"
    /\ checking = "none"
    /\ checking' = service
    /\ grpcLast' = NoGrpcCall
    /\ UNCHANGED <<healthSrv, grpcpc, stopSet, serve>>
    /\ UNCHANGED <<now, store, sdVars, cfgVars, cmVars, hbxVars, lkVars, ledgerVars>>

\* health.Server.Check answers the request in flight from the status map.
Check ==
    /\ checking /= "none"
    /\ checking' = "none"
    /\ LET service == checking IN
       grpcLast' = IF service \in DOMAIN healthSrv
                   THEN [op |-> "Check", service |-> service,
                         status |-> healthSrv[service], err |-> "nil"]
                   ELSE [op |-> "Check", service |-> service,
                         status |-> "none", err |-> "NotFound"]
    /\ UNCHANGED <<healthSrv, grpcpc, stopSet, serve>>
    /\ UNCHANGED <<now, store, sdVars, cfgVars, cmVars, hbxVars, lkVars, ledgerVars>>

\* The status a SetServingStatus call of GracefulStop sets.
stopStatusKeepServing == "SERVING"

stopStatus == "NOT_SERVING"

\* CustodianGRPCServer.GracefulStop is called.
GracefulStopCall ==
    /\ grpcpc = "running"
    /\ grpcpc' = "stopping"
    /\ grpcLast' = NoGrpcCall
    /\ UNCHANGED <<healthSrv, stopSet, serve, checking>>
    /\ UNCHANGED <<now, store, sdVars, cfgVars, cmVars, hbxVars, lkVars, ledgerVars>>

\* GracefulStop: its next SetServingStatus call.
GracefulStopSetStatus ==
    /\ grpcpc = "stopping"
    /\ stopSet < Len(healthServices(config))
    /\ healthSrv' = SetServingStatus(healthSrv, healthServices(config)[stopSet + 1],
                                     stopStatus)
    /\ stopSet' = stopSet + 1
    /\ grpcLast' = NoGrpcCall
    /\ UNCHANGED <<grpcpc, serve, checking>>
    /\ UNCHANGED <<now, store, sdVars, cfgVars, cmVars, hbxVars, lkVars, ledgerVars>>

\* GracefulStop: s.server.GracefulStop() returns once the requests in flight
\* are answered, and Serve has returned then.
GracefulStopServer ==
    /\ grpcpc = "stopping"
    /\ checking = "none"
    /\ stopSet = Len(healthServices(config))
    /\ grpcpc' = "stopped"
    /\ serve' = IF serve = "serving" THEN "returned" ELSE serve
    /\ grpcLast' = NoGrpcCall
    /\ UNCHANGED <<healthSrv, stopSet, checking>>
    /\ UNCHANGED <<now, store, sdVars, cfgVars, cmVars, hbxVars, lkVars, ledgerVars>>

\* CustodianGRPCServer.GetMetrics: the service status it reports is fixed.
GetMetrics ==
    /\ grpcLast' = [op |-> "GetMetrics", service |-> "custodian",
                    status |-> "serving", err |-> "nil"]
    /\ UNCHANGED <<healthSrv, grpcpc, stopSet, serve, checking>>
    /\ UNCHANGED <<now, store, sdVars, cfgVars, cmVars, hbxVars, lkVars, ledgerVars>>

\* ------------------------------------------------ the custodian service
\* float64 values: the small whole numbers, which float64 holds and adds
\* exactly, and the three values that are not finite.
Fin(n) == [kind |-> "fin", val |-> n]
NaN == [kind |-> "NaN", val |-> 0]
PosInf == [kind |-> "+Inf", val |-> 0]
NegInf == [kind |-> "-Inf", val |-> 0]

\* -x
fneg(x) ==
    IF x.kind = "fin" THEN Fin(0 - x.val)
    ELSE IF x.kind = "+Inf" THEN NegInf
    ELSE IF x.kind = "-Inf" THEN PosInf
    ELSE NaN

\* x + y
fadd(x, y) ==
    IF x.kind = "NaN" \/ y.kind = "NaN" THEN NaN
    ELSE IF x.kind = "fin" /\ y.kind = "fin" THEN Fin(x.val + y.val)
    ELSE IF x.kind = "fin" THEN y
    ELSE IF y.kind = "fin" THEN x
    ELSE IF x.kind = y.kind THEN x
    ELSE NaN

\* x - y
fsub(x, y) == fadd(x, fneg(y))

\* x < y, false whenever one of the two is NaN
fless(x, y) ==
    IF x.kind = "NaN" \/ y.kind = "NaN" THEN FALSE
    ELSE IF x.kind = "fin" /\ y.kind = "fin" THEN x.val < y.val
    ELSE IF x.kind = "-Inf" THEN y.kind /= "-Inf"
    ELSE IF x.kind = "+Inf" THEN FALSE
    ELSE y.kind = "+Inf"

\* The assets and the amounts the callers pass.
Assets == {"BTC", "USD"}
Amounts == {Fin(0 - 1), Fin(0), Fin(1), NaN, PosInf, NegInf}

\* fmt.Sprintf("ACCT_%d", time.Now().UnixNano())
generateAccountID(nano) == <<"ACCT_", nano>>

\* fmt.Sprintf("SETTLE_%d", time.Now().UnixNano())
generateSettlementID(nano) == <<"SETTLE_", nano>>

\* An account ID that no account has: no clock reading is negative.
UnknownAccount == <<"ACCT_", 0 - 1>>

\* The ID of a settlement that a caller has made up.
CallerSettlementID == <<"SETTLE_", 0 - 1>>

\* m[k] of a Go map of float64: the zero value for a missing key.
balanceOf(bals, account, asset) ==
    IF account \in DOMAIN bals /\ asset \in DOMAIN bals[account]
    THEN bals[account][asset] ELSE Fin(0)

\* s.balances[account][asset] = value
setBalance(bals, account, asset, value) ==
    [a \in DOMAIN bals \cup {account} |->
        IF a = account
        THEN [k \in (IF a \in DOMAIN bals THEN DOMAIN bals[a] ELSE {}) \cup {asset} |->
                 IF k = asset THEN value ELSE bals[a][k]]
        ELSE bals[a]]

\* ProcessSettlement under s.mu: both accounts must exist and the source must
\* not hold less than the amount; then the amount is taken from the source and
\* added to the destination, in this order, and both accounts are stamped.
processSettlement(accts, bals, settlement, nano) ==
    IF settlement.FromAccount \notin DOMAIN accts
    THEN [err |-> "from account not found", accounts |-> accts, balances |-> bals]
    ELSE IF settlement.ToAccount \notin DOMAIN accts
    THEN [err |-> "to account not found", accounts |-> accts, balances |-> bals]
    ELSE IF fless(balanceOf(bals, settlement.FromAccount, settlement.AssetID),
                  settlement.Amount)
    THEN [err |-> "insufficient balance", accounts |-> accts, balances |-> bals]
    ELSE LET debited ==
                 setBalance(bals, settlement.FromAccount, settlement.AssetID,
                            fsub(balanceOf(bals, settlement.FromAccount,
                                           settlement.AssetID),
                                 settlement.Amount))
             credited ==
                 setBalance(debited, settlement.ToAccount, settlement.AssetID,
                            fadd(balanceOf(debited, settlement.ToAccount,
                                           settlement.AssetID),
                                 settlement.Amount))
         IN  [err |-> "nil",
              accounts |-> [a \in DOMAIN accts |->
                              IF a \in {settlement.FromAccount, settlement.ToAccount}
                              THEN [accts[a] EXCEPT !.UpdatedAt = nano]
                              ELSE accts[a]],
              balances |-> credited]

\* &Settlement{...}
MkSettlement(id, from, to, asset, amount) ==
    [ID |-> id, FromAccount |-> from, ToAccount |-> to, AssetID |-> asset,
     Amount |-> amount, Status |-> "completed"]

NoLedgerCall ==
    [op |-> "none", err |-> "nil", id |-> << >>,
     settlement |-> MkSettlement(<< >>, << >>, << >>, "", Fin(0))]

\* NewCustodianService
LedgerInit ==
    /\ accounts = << >>
    /\ balances = << >>
    /\ unixNano = 0
    /\ ledgerCalls = 0
    /\ ledgerLast = NoLedgerCall

\* What a step of the custodian service leaves alone.
ledgerFrame ==
    UNCHANGED <<now, store, sdVars, cfgVars, cmVars, grpcVars, hbxVars, lkVars>>

\* The wall clock moves on by a nanosecond; two readings of it that follow
\* each other need not differ.
ClockAdvance ==
    /\ unixNano + 1 < MaxReadings
    /\ unixNano' = unixNano + 1
    /\ ledgerLast' = NoLedgerCall
    /\ UNCHANGED <<accounts, balances, ledgerCalls>>
    /\ ledgerFrame

\* CustodianService.CreateAccount
CreateAccount(accountType) ==
    /\ LET id == generateAccountID(unixNano)
       IN  /\ accounts' = [a \in DOMAIN accounts \cup {id} |->
                             IF a = id
                             THEN [ID |-> id, Type |-> accountType, Status |-> "active",
                                   CreatedAt |-> unixNano, UpdatedAt |-> unixNano]
                             ELSE accounts[a]]
           /\ balances' = [a \in DOMAIN balances \cup {id} |->
                             IF a = id THEN << >> ELSE balances[a]]
           /\ ledgerLast' = [NoLedgerCall EXCEPT !.op = "CreateAccount", !.id = id]
    /\ UNCHANGED <<unixNano, ledgerCalls>>
    /\ ledgerFrame

\* CustodianService.ProcessSettlement
ProcessSettlement(settlement) ==
    /\ ledgerCalls < MaxSettlements
    /\ ledgerCalls' = ledgerCalls + 1
    /\ LET res == processSettlement(accounts, balances, settlement, unixNano)
       IN  /\ accounts' = res.accounts
           /\ balances' = res.balances
           /\ ledgerLast' = [op |-> "ProcessSettlement", err |-> res.err,
                             id |-> << >>, settlement |-> settlement]
    /\ UNCHANGED unixNano
    /\ ledgerFrame

\* CustodianService.Transfer: a settlement made of the arguments and processed;
\* the settlement's ID is returned unless the settlement failed.
Transfer(fromAccount, toAccount, asset, amount) ==
    /\ ledgerCalls < MaxSettlements
    /\ ledgerCalls' = ledgerCalls + 1
    /\ LET settlement == MkSettlement(generateSettlementID(unixNano), fromAccount,
                                      toAccount, asset, amount)
           res == processSettlement(accounts, balances, settlement, unixNano)
       IN  /\ accounts' = res.accounts
           /\ balances' = res.balances
           /\ ledgerLast' = [op |-> "Transfer", err |-> res.err,
                             id |-> IF res.err = "nil" THEN settlement.ID ELSE << >>,
                             settlement |-> settlement]
    /\ UNCHANGED unixNano
    /\ ledgerFrame

\* The account IDs a caller passes: those of the accounts and one of none.
AccountIDs == DOMAIN accounts \cup {UnknownAccount}

LedgerNext ==
    \/ CreateAccount("custody")
    \/ \E from \in AccountIDs : \E to \in AccountIDs :
       \E asset \in Assets : \E amount \in Amounts :
         ProcessSettlement(MkSettlement(CallerSettlementID, from, to, asset, amount))
    \/ \E from \in AccountIDs : \E to \in AccountIDs :
       \E asset \in Assets : \E amount \in Amounts :
         Transfer(from, to, asset, amount)
    \/ ClockAdvance

Init ==
    /\ now = 0
    /\ store = << >>
    /\ SDInit
    /\ ConfigInit
    /\ ManagerInit
    /\ GrpcInit
    /\ dpc = "idle"
    /\ stopIssued = FALSE
    /\ tickPending = FALSE
    /\ LocksInit
    /\ LedgerInit

\* The Service Directory's calls against a store other processes use too; the
\* heartbeat loop is not started.
SDNext ==
    \/ Connect
    \/ RegisterService
    \/ \E serviceName \in ServiceNames : Discover(serviceName)
    \/ \E status \in Statuses : UpdateServiceStatus(status)
    \/ Disconnect
    \/ Tick
    \/ \E p \in SamePeers : \E data \in {Marshal(p), Garbage} : EnvRegister(p, data)
    \/ \E p \in SamePeers : EnvUnregister(p)

\* The Service Directory reads neither cfg.CacheTTL nor the configuration client.
InitSD == Init /\ config.CacheTTL = 2

SpecSD == InitSD /\ [][SDNext]_vars

\* This process's registration kept alive by its heartbeat loop.
HBNext ==
    \/ Connect
    \/ RegisterService
    \/ Discover(config.ServiceName)
    \/ \E status \in Statuses : UpdateServiceStatus(status)
    \/ StartHeartbeat
    \/ HeartbeatCtxDone
    \/ HeartbeatPark
    \/ sendHeartbeat
    \/ CancelContext
    \/ Disconnect
    \/ Tick

SpecHB == InitSD /\ [][HBNext]_vars

\* The configuration client under concurrent callers, a changing remote service
\* and a running clock.
ConfigNext ==
    \/ \E c \in Callers : \E key \in ConfigKeys : GetConfigurationLookup(c, key)
    \/ \E c \in Callers : GetConfigurationFetch(c)
    \/ ConfigDisconnect
    \/ GetCacheStats
    \/ \E raw \in {"none", "24", "48"} :
         EnvSetRemote("custodian.settlement.timeout_hours", raw)
    \/ Tick

\* The configuration client reads neither cfg.RedisURL nor the heartbeat interval.
InitConfig ==
    Init /\ config.RedisURL = "redis://localhost:6379" /\ config.HealthCheckInterval = 1

SpecConfig == InitConfig /\ [][ConfigNext]_vars

\* The conversions of values a caller holds, next to one caller's
\* GetConfiguration of one key of a changing remote service.
ConversionNext ==
    \/ \E cv \in ConvValues : Convert("AsString", cv)
    \/ \E cv \in ConvValues : Convert("AsInt", cv)
    \/ \E cv \in ConvValues : Convert("AsBool", cv)
    \/ GetConfigurationLookup(1, "custodian.settlement.timeout_hours")
    \/ GetConfigurationFetch(1)
    \/ \E raw \in {"none", "24", "abc", "true"} :
         EnvSetRemote("custodian.settlement.timeout_hours", raw)

SpecConversion == InitConfig /\ [][ConversionNext]_vars

\* The Connection Manager over a registry in which the instances of other
\* services come and go, and connections whose transports change state.
ManagerNext ==
    \/ Initialize
    \/ GetExchangeSimulatorClient
    \/ GetAuditCorrelatorClient
    \/ \E serviceName \in ManagerNames : GetClientByName(serviceName)
    \/ GetConnectionStats
    \/ Cleanup
    \/ \E conn \in 1..MaxCalls : \E state \in ConnStates :
         ConnStateChange(conn, state)
    \/ \E p \in ManagerPeers : EnvRegister(p, Marshal(p))
    \/ \E p \in ManagerPeers : EnvUnregister(p)

\* The manager reads neither the heartbeat interval nor cfg.CacheTTL.
InitManager == Init /\ config.HealthCheckInterval = 1 /\ config.CacheTTL = 2

SpecManager == InitManager /\ [][ManagerNext]_vars

\* The manager's DiscoverServices over a registry in which the instances of
\* all services come and go.
ManagerDiscoveryNext ==
    \/ Initialize
    \/ ManagerDiscoverServices
    \/ Cleanup
    \/ \E p \in PeerInfos : EnvRegister(p, Marshal(p))
    \/ \E p \in PeerInfos : EnvUnregister(p)

SpecManagerDiscovery == InitManager /\ [][ManagerDiscoveryNext]_vars

\* The names the goroutines of the statement-by-statement manager ask for.
LockNames == {"exchange-simulator", "non-existent-service"}

\* The instances that come and go under those names.
LockPeers == {p \in PeerInfos : p.Name \in LockNames /\ p.Host = "exchange-1"}

\* Two goroutines that call the manager concurrently, statement by statement.
ManagerLocksNext ==
    \/ Initialize
    \/ \E g \in Goroutines :
         getServiceConnectionLock(g, "GetExchangeSimulatorClient", "exchange-simulator")
    \/ \E g \in Goroutines : \E serviceName \in LockNames :
         getServiceConnectionLock(g, "GetClientByName", serviceName)
    \/ \E g \in Goroutines : getServiceConnectionCheck(g)
    \/ \E g \in Goroutines : getServiceConnectionDiscover(g)
    \/ \E g \in Goroutines : getServiceConnectionDial(g)
    \/ \E g \in Goroutines : getServiceConnectionStore(g)
    \/ \E g \in Goroutines : incrementLock(g)
    \/ \E g \in Goroutines : incrementActiveConnections(g)
    \/ \E g \in Goroutines : incrementTotalConnections(g)
    \/ \E g \in Goroutines : incrementFailedConnections(g)
    \/ \E g \in Goroutines : getServiceConnectionReturn(g)
    \/ \E g \in Goroutines : GetConnectionStatsRLock(g)
    \/ \E g \in Goroutines : GetConnectionStatsRead(g)
    \/ \E g \in Goroutines : CleanupLock(g)
    \/ \E g \in Goroutines : CleanupClose(g)
    \/ \E g \in Goroutines : CleanupPoolLock(g)
    \/ \E g \in Goroutines : CleanupPoolUnlock(g)
    \/ \E g \in Goroutines : CleanupDisconnect(g)
    \/ \E g \in Goroutines : CleanupConfigDisconnect(g)
    \/ \E g \in Goroutines : CleanupConfigClear(g)
    \/ \E conn \in 1..MaxCalls : \E state \in {"READY", "TRANSIENT_FAILURE"} :
         ConnStateChange(conn, state)
    \/ \E p \in LockPeers : EnvRegister(p, Marshal(p))
    \/ \E p \in LockPeers : EnvUnregister(p)

SpecManagerLocks == InitManager /\ [][ManagerLocksNext]_vars

\* ------------------------------- the configuration client, lock by lock
\* What a step of the configuration client leaves alone outside the client.
cfgFrame ==
    /\ cmLast' = NoManagerCall
    /\ UNCHANGED <<now, store, sdVars, cmRest, grpcVars, hbxVars, ledgerVars, connectionsMutex,
                   statsMutex, mcall, poolMutex, remote, cfgpc, cfgKey>>

\* GetConfiguration: the call starts and getCachedValue takes
\* c.cacheMutex.RLock()
getCachedValueRLock(g, key) ==
    /\ ccall[g].pc = "idle"
    /\ mcall[g].pc = "idle"
    /\ cmCalls + cfgCalls < MaxCalls
    /\ CanRLock(cacheMutex)
    /\ cacheMutex' = RLock(cacheMutex, g)
    /\ cfgCalls' = cfgCalls + 1
    /\ ccall' = [ccall EXCEPT ![g] = [NoConfigActivity EXCEPT
                    !.pc = "getCachedValue", !.op = "GetConfiguration", !.key = key]]
    /\ cfgLast' = NoConfigCall
    /\ UNCHANGED <<cache, cacheHits, cacheMisses, cfgStatsMutex>>
    /\ cfgFrame

\* getCachedValue: the lookup, the expiry test and the deferred RUnlock
getCachedValueRead(g) ==
    /\ ccall[g].pc = "getCachedValue"
    /\ LET cached == getCachedValue(cache, ccall[g].key, now)
       IN  ccall' = [ccall EXCEPT
                       ![g].pc = IF cached.found THEN "incrementCacheHits"
                                 ELSE "incrementCacheMisses",
                       ![g].found = cached.found,
                       ![g].value = cached.value]
    /\ cacheMutex' = RUnlock(cacheMutex, g)
    /\ cfgLast' = NoConfigCall
    /\ UNCHANGED <<cache, cacheHits, cacheMisses, cfgStatsMutex, cfgCalls>>
    /\ cfgFrame

\* incrementCacheHits, incrementCacheMisses: c.statsMutex.Lock()
cacheIncrementLock(g) ==
    /\ ccall[g].pc \in {"incrementCacheHits", "incrementCacheMisses"}
    /\ CanLock(cfgStatsMutex)
    /\ cfgStatsMutex' = Lock(cfgStatsMutex, g)
    /\ ccall' = [ccall EXCEPT ![g].pc = IF ccall[g].pc = "incrementCacheHits"
                                        THEN "cacheHits++" ELSE "cacheMisses++"]
    /\ cfgLast' = NoConfigCall
    /\ UNCHANGED <<cache, cacheHits, cacheMisses, cacheMutex, cfgCalls>>
    /\ cfgFrame

\* An incrementCacheMisses that leaves the counter as it is.
incrementCacheMissesSkipped(g) ==
    /\ ccall[g].pc = "cacheMisses++"
    /\ cfgStatsMutex' = Unlock(cfgStatsMutex, g)
    /\ ccall' = [ccall EXCEPT ![g].pc = "fetchConfiguration"]
    /\ cfgLast' = NoConfigCall
    /\ UNCHANGED <<cache, cacheHits, cacheMisses, cacheMutex, cfgCalls>>
    /\ cfgFrame

\* incrementCacheHits: c.cacheHits++, the deferred Unlock, and GetConfiguration
\* returns the cached value.
incrementCacheHits(g) ==
    /\ ccall[g].pc = "cacheHits++"
    /\ cacheHits' = cacheHits + 1
    /\ cfgStatsMutex' = Unlock(cfgStatsMutex, g)
    /\ cfgLast' = MkConfigLast("GetConfiguration", g, ccall[g].key, TRUE, "nil",
                               ccall[g].value, TRUE, TRUE)
    /\ ccall' = [ccall EXCEPT ![g] = NoConfigActivity]
    /\ UNCHANGED <<cache, cacheMisses, cacheMutex, cfgCalls>>
    /\ cfgFrame

\* incrementCacheMisses: c.cacheMisses++ and the deferred Unlock
incrementCacheMisses(g) ==
    /\ ccall[g].pc = "cacheMisses++"
    /\ cacheMisses' = cacheMisses + 1
    /\ cfgStatsMutex' = Unlock(cfgStatsMutex, g)
    /\ ccall' = [ccall EXCEPT ![g].pc = "fetchConfiguration"]
    /\ cfgLast' = NoConfigCall
    /\ UNCHANGED <<cache, cacheHits, cacheMutex, cfgCalls>>
    /\ cfgFrame

\* GetConfiguration: fetchConfiguration, under no lock; an error is returned.
fetchConfigurationCall(g) ==
    /\ ccall[g].pc = "fetchConfiguration"
    /\ \E outcome \in FetchOutcomes :
         LET got == fetchConfiguration(remote, ccall[g].key, outcome)
         IN  IF got.err = "nil"
             THEN /\ ccall' = [ccall EXCEPT ![g].pc = "cacheValue",
                                            ![g].value = got.value]
                  /\ cfgLast' = NoConfigCall
             ELSE /\ ccall' = [ccall EXCEPT ![g] = NoConfigActivity]
                  /\ cfgLast' = [MkConfigLast("GetConfiguration", g, ccall[g].key,
                                              TRUE, got.err, got.value, FALSE,
                                              ccall[g].key \in DOMAIN cache)
                                   EXCEPT !.outcome = outcome]
    /\ UNCHANGED <<cache, cacheHits, cacheMisses, cacheMutex, cfgStatsMutex, cfgCalls>>
    /\ cfgFrame

\* cacheValue: c.cacheMutex.Lock()
cacheValueLock(g) ==
    /\ ccall[g].pc = "cacheValue"
    /\ CanLock(cacheMutex)
    /\ cacheMutex' = Lock(cacheMutex, g)
    /\ ccall' = [ccall EXCEPT ![g].pc = "cacheValueStore"]
    /\ cfgLast' = NoConfigCall
    /\ UNCHANGED <<cache, cacheHits, cacheMisses, cfgStatsMutex, cfgCalls>>
    /\ cfgFrame

\* cacheValue: the store, the deferred Unlock, and GetConfiguration returns
\* the fetched value.
cacheValueStore(g) ==
    /\ ccall[g].pc = "cacheValueStore"
    /\ cache' = cacheValue(cache, ccall[g].key, ccall[g].value, now, config.CacheTTL)
    /\ cacheMutex' = Unlock(cacheMutex, g)
    /\ cfgLast' = [MkConfigLast("GetConfiguration", g, ccall[g].key, TRUE, "nil",
                                ccall[g].value, FALSE, ccall[g].key \in DOMAIN cache)
                     EXCEPT !.outcome = "answer"]
    /\ ccall' = [ccall EXCEPT ![g] = NoConfigActivity]
    /\ UNCHANGED <<cacheHits, cacheMisses, cfgStatsMutex, cfgCalls>>
    /\ cfgFrame

\* GetCacheStats: c.statsMutex.RLock()
GetCacheStatsRLock(g) ==
    /\ ccall[g].pc = "idle"
    /\ mcall[g].pc = "idle"
    /\ CanRLock(cfgStatsMutex)
    /\ cfgStatsMutex' = RLock(cfgStatsMutex, g)
    /\ ccall' = [ccall EXCEPT ![g] = [NoConfigActivity EXCEPT
                    !.pc = "cacheSize", !.op = "GetCacheStats"]]
    /\ cfgLast' = NoConfigCall
    /\ UNCHANGED <<cache, cacheHits, cacheMisses, cacheMutex, cfgCalls>>
    /\ cfgFrame

\* GetCacheStats: c.cacheMutex.RLock(), taken with the statistics mutex held
GetCacheStatsCacheRLock(g) ==
    /\ ccall[g].pc = "cacheSize"
    /\ CanRLock(cacheMutex)
    /\ cacheMutex' = RLock(cacheMutex, g)
    /\ ccall' = [ccall EXCEPT ![g].pc = "cacheStats"]
    /\ cfgLast' = NoConfigCall
    /\ UNCHANGED <<cache, cacheHits, cacheMisses, cfgStatsMutex, cfgCalls>>
    /\ cfgFrame

\* GetCacheStats: len(c.cache), c.cacheMutex.RUnlock(), the statistics and the
\* deferred c.statsMutex.RUnlock()
GetCacheStatsRead(g) ==
    /\ ccall[g].pc = "cacheStats"
    /\ cacheMutex' = RUnlock(cacheMutex, g)
    /\ cfgStatsMutex' = RUnlock(cfgStatsMutex, g)
    /\ cfgLast' = [MkConfigLast("GetCacheStats", g, "", TRUE, "nil",
                                NoConfigurationValue, FALSE, FALSE)
                     EXCEPT !.stats = cacheStats(cacheHits, cacheMisses, cache)]
    /\ ccall' = [ccall EXCEPT ![g] = NoConfigActivity]
    /\ UNCHANGED <<cache, cacheHits, cacheMisses, cfgCalls>>
    /\ cfgFrame

\* Disconnect: c.cacheMutex.Lock()
ConfigDisconnectLock(g) ==
    /\ ccall[g].pc = "idle"
    /\ mcall[g].pc = "idle"
    /\ CanLock(cacheMutex)
    /\ cacheMutex' = Lock(cacheMutex, g)
    /\ ccall' = [ccall EXCEPT ![g] = [NoConfigActivity EXCEPT
                    !.pc = "clear", !.op = "Disconnect"]]
    /\ cfgLast' = NoConfigCall
    /\ UNCHANGED <<cache, cacheHits, cacheMisses, cfgStatsMutex, cfgCalls>>
    /\ cfgFrame

\* A Disconnect that takes the statistics mutex inside the cache's mutex.
ConfigDisconnectClearUnderStats(g) ==
    /\ ccall[g].pc = "clear"
    /\ CanLock(cfgStatsMutex)
    /\ cache' = clearCache(cache)
    /\ cacheMutex' = Unlock(cacheMutex, g)
    /\ cfgLast' = [MkConfigLast("Disconnect", g, "", TRUE, "nil", NoConfigurationValue,
                                FALSE, cache /= << >>)
                     EXCEPT !.cleared = DOMAIN cache]
    /\ ccall' = [ccall EXCEPT ![g] = NoConfigActivity]
    /\ UNCHANGED <<cacheHits, cacheMisses, cfgStatsMutex, cfgCalls>>
    /\ cfgFrame

\* Disconnect: the cache is replaced by an empty map, c.cacheMutex.Unlock()
ConfigDisconnectClear(g) ==
    /\ ccall[g].pc = "clear"
    /\ cache' = clearCache(cache)
    /\ cacheMutex' = Unlock(cacheMutex, g)
    /\ cfgLast' = [MkConfigLast("Disconnect", g, "", TRUE, "nil", NoConfigurationValue,
                                FALSE, cache /= << >>)
                     EXCEPT !.cleared = DOMAIN cache]
    /\ ccall' = [ccall EXCEPT ![g] = NoConfigActivity]
    /\ UNCHANGED <<cacheHits, cacheMisses, cfgStatsMutex, cfgCalls>>
    /\ cfgFrame

\* The key the goroutines ask the configuration client for.
LockKeys == {"custodian.settlement.timeout_hours"}

\* Two goroutines in the manager and in its configuration client, every lock
\* and unlock a step: lookups by name, statistics and Cleanup on the manager,
\* GetConfiguration, GetCacheStats and Disconnect on the client.
ClientLocksNext ==
    \/ Initialize
    \/ \E g \in Goroutines :
         getServiceConnectionLock(g, "GetClientByName", "exchange-simulator")
    \/ \E g \in Goroutines : getServiceConnectionCheck(g)
    \/ \E g \in Goroutines : getServiceConnectionDiscover(g)
    \/ \E g \in Goroutines : getServiceConnectionDial(g)
    \/ \E g \in Goroutines : getServiceConnectionStore(g)
    \/ \E g \in Goroutines : incrementLock(g)
    \/ \E g \in Goroutines : incrementActiveConnections(g)
    \/ \E g \in Goroutines : incrementTotalConnections(g)
    \/ \E g \in Goroutines : incrementFailedConnections(g)
    \/ \E g \in Goroutines : getServiceConnectionReturn(g)
    \/ \E g \in Goroutines : GetConnectionStatsRLock(g)
    \/ \E g \in Goroutines : GetConnectionStatsRead(g)
    \/ \E g \in Goroutines : CleanupLock(g)
    \/ \E g \in Goroutines : CleanupClose(g)
    \/ \E g \in Goroutines : CleanupPoolLock(g)
    \/ \E g \in Goroutines : CleanupPoolUnlock(g)
    \/ \E g \in Goroutines : CleanupDisconnect(g)
    \/ \E g \in Goroutines : CleanupConfigDisconnect(g)
    \/ \E g \in Goroutines : CleanupConfigClear(g)
    \/ \E g \in Goroutines : \E key \in LockKeys : getCachedValueRLock(g, key)
    \/ \E g \in Goroutines : getCachedValueRead(g)
    \/ \E g \in Goroutines : cacheIncrementLock(g)
    \/ \E g \in Goroutines : incrementCacheHits(g)
    \/ \E g \in Goroutines : incrementCacheMisses(g)
    \/ \E g \in Goroutines : fetchConfigurationCall(g)
    \/ \E g \in Goroutines : cacheValueLock(g)
    \/ \E g \in Goroutines : cacheValueStore(g)
    \/ \E g \in Goroutines : GetCacheStatsRLock(g)
    \/ \E g \in Goroutines : GetCacheStatsCacheRLock(g)
    \/ \E g \in Goroutines : GetCacheStatsRead(g)
    \/ \E g \in Goroutines : ConfigDisconnectLock(g)
    \/ \E g \in Goroutines : ConfigDisconnectClear(g)
    \/ \E p \in LockPeers : EnvRegister(p, Marshal(p))

SpecClientLocks == InitManager /\ [][ClientLocksNext]_vars

\* The custodian service's ledger under any sequence of its calls.
SpecLedger == InitManager /\ [][LedgerNext]_vars

\* The heartbeat loop next to a Disconnect that runs step by step, with the
\* clock advancing also while the loop is between its select and its write.
HBStopNext ==
    \/ Connect
    \/ RegisterService
    \/ StartHeartbeat
    \/ HeartbeatCtxDone
    \/ HeartbeatPark
    \/ HeartbeatTick
    \/ sendHeartbeat
    \/ CancelContext
    \/ DisconnectStopHeartbeat
    \/ DisconnectUnregister
    \/ DisconnectClose
    \/ Tick
    \/ TickBusy
    \/ TickAtHorizon

SpecHBStop == InitSD /\ [][HBStopNext]_vars

\* The scheduler runs the loop's goroutine and the caller of Disconnect, the
\* clock advances and the ticker keeps firing.
SpecHBStopLive ==
    /\ SpecHBStop
    /\ WF_vars(HeartbeatCtxDone)
    /\ WF_vars(HeartbeatPark)
    /\ WF_vars(HeartbeatTick)
    /\ WF_vars(sendHeartbeat)
    /\ WF_vars(DisconnectUnregister)
    /\ WF_vars(DisconnectClose)
    /\ WF_vars(Tick)
    /\ WF_vars(TickBusy)
    /\ WF_vars(TickAtHorizon)

\* The gRPC server with its health clients, from construction to its stop.
GRPCNext ==
    \/ Serve
    \/ \E service \in CheckedServices : CheckRequest(service)
    \/ Check
    \/ GetMetrics
    \/ GracefulStopCall
    \/ GracefulStopSetStatus
    \/ GracefulStopServer

\* The gRPC server reads cfg.ServiceName alone.
InitGRPC ==
    /\ Init
    /\ config.RedisURL = "redis://localhost:6379"
    /\ config.HealthCheckInterval = 1
    /\ config.CacheTTL = 2

SpecGRPC == InitGRPC /\ [][GRPCNext]_vars


\* ------------------------------------------------------------------ claims

\* This process's registry key as the schema states it.
OwnKey == <<"services:", config.ServiceName, ":", "localhost", ":", "9094">>

\* The step is a DiscoverServices call.
DiscoverStep == sdLast'.op = "DiscoverServices"

\* The keys of the store that start with the tokens of {prefix}{name}: .
KeysOfName(st, name) ==
    {k \in DOMAIN st : Len(k) >= 3 /\ SubSeq(k, 1, 3) = <<"services:", name, ":">>}

\* C6: a DiscoverServices for this process's own name that directly follows a
\* successful RegisterService, and whose scan and read of the key succeed,
\* returns a record with this process's name, host and ports.
C6_ReadAfterWrite ==
    [][(/\ sdLast.op = "RegisterService" /\ ~sdLast.err
        /\ DiscoverStep /\ sdLast'.name = config.ServiceName
        /\ ~sdLast'.err /\ OwnKey \notin sdLast'.unreadable)
       => \E i \in DOMAIN sdLast'.services :
            LET r == sdLast'.services[i]
            IN  /\ r.Name = config.ServiceName /\ r.Host = "localhost"
                /\ r.GRPCPort = config.GRPCPort /\ r.HTTPPort = config.HTTPPort
                /\ r.Status = "healthy" /\ r.LastSeen = now]_vars

C6_Witness ==
    /\ sdLast.op = "DiscoverServices" /\ sdLast.name = config.ServiceName
    /\ sdLast.after = "RegisterService"
    /\ ~sdLast.err /\ Len(sdLast.services) = 2
    /\ \E i \in DOMAIN sdLast.services : sdLast.services[i].Host = "localhost"

\* C9: DiscoverServices fails exactly when the key scan fails (a closed
\* client fails it too); otherwise it returns, once each, the records parsed
\* from the keys of the name that were read and hold a ServiceInfo: none when
\* no key matches, malformed and unreadable entries skipped.
C9_DiscoverPartialResults ==
    [][DiscoverStep =>
        LET res == sdLast'
            good == {k \in KeysOfName(store, res.name) :
                        k \notin res.unreadable /\ store[k].data.kind = "json"}
        IN  /\ res.err = res.scanErr
            /\ res.err => res.services = <<>>
            /\ ~res.err =>
                 /\ Range(res.keys) = KeysOfName(store, res.name)
                 /\ Len(res.services) = Cardinality(good)
                 /\ Range(res.services) = {store[k].data.obj : k \in good}
                 /\ KeysOfName(store, res.name) = {} => res.services = <<>>]_vars

\* A successful discovery that skipped a malformed entry and kept another.
C9_Witness ==
    /\ sdLast.op = "DiscoverServices" /\ ~sdLast.err
    /\ Len(sdLast.keys) = 2 /\ Len(sdLast.services) = 1
    /\ sdLast.unreadable = {}

\* C7: a record of this process that no RegisterService and no heartbeat has
\* rewritten for serviceKeyTTL is gone from the store, and a DiscoverServices
\* returns only records the store holds, unexpired, when it is called.
C7_ExpiredRecordVanishes ==
    [][/\ \A k \in DOMAIN store' :
            store'[k].data.kind = "json" =>
                now' < store'[k].data.obj.LastSeen + serviceKeyTTL
       /\ (DiscoverStep /\ ~sdLast'.err) =>
            \A i \in DOMAIN sdLast'.services :
                /\ \E k \in DOMAIN store : store[k].data.obj = sdLast'.services[i]
                /\ now < sdLast'.services[i].LastSeen + serviceKeyTTL]_vars

\* The record was written, serviceKeyTTL has passed since, and a discovery of
\* the name finds nothing.
C7_Witness ==
    /\ everWritten /\ hbpc = "off"
    /\ now >= serviceInfo.LastSeen + serviceKeyTTL
    /\ sdLast.op = "DiscoverServices" /\ sdLast.name = config.ServiceName
    /\ ~sdLast.err /\ sdLast.keys = <<>> /\ sdLast.services = <<>>

\* C8: while the heartbeat loop that was running when the record was
\* registered keeps running and its writes succeed, the record is in the store.
C8_HeartbeatKeepsRecord == hbCovered => OwnKey \in DOMAIN store

\* The same for the heartbeat intervals shorter than the registry TTL.
HeartbeatKeepsRecordShortInterval ==
    (hbCovered /\ config.HealthCheckInterval < serviceKeyTTL) => OwnKey \in DOMAIN store

\* C10: every registry write and delete of this process uses the one key made
\* of its name, host and RPC port, whatever its status and timestamp, and the
\* store never holds two records of the process.
C10_OneKeyPerProcess ==
    /\ usedKeys \subseteq {OwnKey}
    /\ Cardinality(DOMAIN store) <= 1

\* A heartbeat has rewritten the record after the status changed.
C10_Witness ==
    /\ OwnKey \in DOMAIN store
    /\ store[OwnKey].data.obj.Status = "unhealthy"
    /\ store[OwnKey].data.obj.LastSeen >= 1

\* The step is the cache lookup of a GetConfiguration call by caller c.
LookupStep(c) ==
    /\ cfgpc[c] = "idle"
    /\ cfgLast'.op = "GetConfiguration" /\ cfgLast'.caller = c

\* The step is the completion of caller c's remote fetch.
FetchStep(c) ==
    /\ cfgpc[c] = "fetching"
    /\ cfgLast'.op = "GetConfiguration" /\ cfgLast'.caller = c /\ cfgLast'.returned

\* C4: GetConfiguration serves from the cache only an entry whose expiry is not
\* earlier than the clock; an entry whose expiry has passed stays in the map but
\* counts as a miss and starts a remote fetch, and a successful fetch replaces
\* the entry by the fetched value with expiry now + CacheTTL.
C4_NoStaleCacheValue ==
    [][\A c \in Callers :
        /\ (LookupStep(c) /\ cfgLast'.fromCache) =>
              /\ cfgLast'.key \in DOMAIN cache
              /\ cache[cfgLast'.key].expiresAt >= now
              /\ cfgLast'.value = cache[cfgLast'.key].value
        /\ (LookupStep(c) /\ cfgLast'.key \in DOMAIN cache
                          /\ cache[cfgLast'.key].expiresAt < now) =>
              /\ ~cfgLast'.returned
              /\ cacheMisses' = cacheMisses + 1 /\ cacheHits' = cacheHits
              /\ cfgpc'[c] = "fetching" /\ cfgKey'[c] = cfgLast'.key
              /\ cache' = cache
        /\ (FetchStep(c) /\ cfgLast'.err = "nil") =>
              /\ cfgLast'.value.Value = remote[cfgKey[c]]
              /\ cache' = [k \in DOMAIN cache \cup {cfgKey[c]} |->
                             IF k = cfgKey[c]
                             THEN [value |-> cfgLast'.value,
                                   expiresAt |-> now + config.CacheTTL]
                             ELSE cache[k]]]_vars

\* A lookup has missed on an entry that is still in the map, its expiry
\* passed, and the caller is fetching remotely.
C4_Witness ==
    /\ cfgLast.op = "GetConfiguration" /\ ~cfgLast.returned /\ cfgLast.hadEntry
    /\ cfgLast.key \in DOMAIN cache
    /\ cache[cfgLast.key].expiresAt < now
    /\ cfgpc[cfgLast.caller] = "fetching"
    /\ cacheMisses = 2

\* C5: a GetConfiguration for a key whose cached entry has not expired returns
\* the cached value in the lookup itself (no remote call), adds one to the hit
\* counter and changes neither the miss counter nor the cache.
C5_CacheHitWithinTTL ==
    [][\A c \in Callers :
        (LookupStep(c) /\ cfgLast'.key \in DOMAIN cache
                       /\ now <= cache[cfgLast'.key].expiresAt) =>
            /\ cfgLast'.returned /\ cfgLast'.fromCache /\ cfgLast'.err = "nil"
            /\ cfgLast'.value = cache[cfgLast'.key].value
            /\ cacheHits' = cacheHits + 1
            /\ cacheMisses' = cacheMisses
            /\ cache' = cache
            /\ cfgpc' = cfgpc]_vars

\* A second call for a fetched key was a hit: one miss, one hit.
C5_Witness ==
    /\ cfgLast.op = "GetConfiguration" /\ cfgLast.fromCache
    /\ cacheHits = 1 /\ cacheMisses = 1
    /\ now >= 1

\* ------------------------------------------------- Connection Manager claims
AccessorOps ==
    {"GetClientByName", "GetExchangeSimulatorClient", "GetAuditCorrelatorClient"}

\* A step that is a call of one of the three accessors.
AccessorStep == cmLast'.op \in AccessorOps

\* C1: a call for a name whose table entry is in transport state ready or idle
\* returns that very connection without a discovery query or a dial, and leaves
\* the three counters, the table and the connections as they were; hence a call
\* that directly follows the call that dialed the name's connection, and finds
\* it healthy, returns the same connection and leaves the active counter at one
\* more than it was before the first of the two calls.
C1_PoolHitReusesConnection ==
    [][ (AccessorStep /\ cmLast'.state \in {"READY", "IDLE"}) =>
          /\ cmLast'.err = NoError
          /\ cmLast'.conn = connections[cmLast'.name]
          /\ cmLast'.queries = 0
          /\ cmLast'.dials = 0
          /\ activeConnections' = activeConnections
          /\ totalConnections' = totalConnections
          /\ failedConnections' = failedConnections
          /\ connections' = connections
          /\ conns' = conns
          /\ (cmLast.op \in AccessorOps /\ cmLast.name = cmLast'.name
                /\ cmLast.err = NoError /\ cmLast.dials = 1) =>
                 /\ cmLast'.conn = cmLast.conn
                 /\ activeConnections' = cmLast.activeBefore + 1
      ]_vars

\* The second of two successive calls for one name has been served from the
\* table entry the first one dialed and left idle.
C1_Witness ==
    /\ cmLast.op = "GetClientByName"
    /\ cmLast.after = "dial"
    /\ cmLast.state = "IDLE"
    /\ cmLast.err = NoError
    /\ cmLast.dials = 0
    /\ cmLast.conn = 1
    /\ activeConnections = 1

\* C2: a call whose discovery query succeeds with zero records fails with a
\* ServiceUnavailable error that names the requested service and has the cause
\* "no instances found"; the failed counter goes up by one, the active and
\* total counters stay, and the table holds no entry for the name afterwards.
C2_NoInstancesIsUnavailable ==
    [][ (AccessorStep /\ cmLast'.queries = 1 /\ ~cmLast'.disc.err
           /\ Len(cmLast'.disc.services) = 0) =>
          /\ IsServiceUnavailableError(cmLast'.err)
          /\ cmLast'.err.ServiceName = cmLast'.name
          /\ cmLast'.err.Cause = "no instances found"
          /\ cmLast'.conn = 0
          /\ failedConnections' = failedConnections + 1
          /\ activeConnections' = activeConnections
          /\ totalConnections' = totalConnections
          /\ cmLast'.name \notin DOMAIN connections'
      ]_vars

\* A call for a name nobody registered has failed while another service's
\* connection sits in the table.
C2_Witness ==
    /\ cmLast.name = "non-existent-service"
    /\ cmLast.err = ServiceUnavailableError("non-existent-service", "no instances found")
    /\ failedConnections = 1
    /\ activeConnections = 1
    /\ "exchange-simulator" \in DOMAIN connections

\* C3: every accessor call makes at most one discovery query and at most one
\* dial; every error it returns is a ServiceUnavailable error, recognised by
\* IsServiceUnavailableError, that carries the requested name, and it raises
\* the failed counter by exactly one and leaves the other two counters.
C3_EveryErrorIsServiceUnavailable ==
    [][ AccessorStep =>
          /\ cmLast'.queries <= 1
          /\ cmLast'.dials <= 1
          /\ cmLast'.err /= NoError =>
               /\ IsServiceUnavailableError(cmLast'.err)
               /\ cmLast'.err.ServiceName = cmLast'.name
               /\ cmLast'.conn = 0
               /\ failedConnections' = failedConnections + 1
               /\ activeConnections' = activeConnections
               /\ totalConnections' = totalConnections
      ]_vars

\* A call has failed in its dial, after a call that failed in its discovery
\* query.
C3_Witness ==
    /\ cmLast.op = "GetExchangeSimulatorClient"
    /\ cmLast.err.Cause = "failed to connect"
    /\ cmLast.queries = 1
    /\ cmLast.dials = 1
    /\ failedConnections = 2
    /\ totalConnections = 0

\* ------------------------------------------------ Service Directory, part 2
\* C11: whenever the heartbeat loop of a constructed Service Directory runs,
\* the TTL of its registry writes is at least three times the interval of the
\* loop's ticker.
C11_TTLAtLeastThreeIntervals ==
    HeartbeatRunning => serviceKeyTTL >= 3 * config.HealthCheckInterval

\* C12: Disconnect returns no error whatever the delete and the close did; a
\* failed delete leaves the store as it was, and with no store connection ever
\* established the store and the (absent) client are not touched.
C12_DisconnectAlwaysSucceeds ==
    [][ sdLast'.op = "Disconnect" =>
          /\ ~sdLast'.err
          /\ "Del" \in sdLast'.faults => store' = store
          /\ redisClient = "nil" =>
               /\ store' = store
               /\ redisClient' = "nil"
               /\ sdLast'.faults = {}
      ]_vars

\* Disconnect has returned although both the delete of the registered record
\* and the close failed; the record is still in the store.
C12_Witness ==
    /\ sdLast.op = "Disconnect"
    /\ sdLast.faults = {"Del", "Close"}
    /\ ~sdLast.err
    /\ OwnKey \in DOMAIN store

\* A step of the heartbeat loop that is one sendHeartbeat.
HeartbeatStep == hbpc = "send" /\ hbpc' = "select"

\* C13: UpdateServiceStatus changes the status field of the in-memory record
\* and nothing else: the store, the client and the loop stay as they were.  A
\* heartbeat write stores the in-memory record with the status it had when
\* the heartbeat began, and the heartbeat leaves that status alone, so the
\* first heartbeat after an update carries the new status.
C13_UpdateStatusIsInMemory ==
    [][ /\ sdLast'.op = "UpdateServiceStatus" =>
             /\ store' = store
             /\ \E status \in Statuses :
                  serviceInfo' = [serviceInfo EXCEPT !.Status = status]
             /\ UNCHANGED <<redisClient, hbpc, nextTick, usedKeys, everWritten>>
        /\ (HeartbeatStep /\ store' /= store) =>
             /\ OwnKey \in DOMAIN store'
             /\ store'[OwnKey].data = Marshal(serviceInfo')
             /\ serviceInfo'.Status = serviceInfo.Status
      ]_vars

\* The status has just been updated to "unhealthy" while the stored record
\* still says "healthy".
C13_Witness ==
    /\ sdLast.op = "UpdateServiceStatus"
    /\ serviceInfo.Status = "unhealthy"
    /\ OwnKey \in DOMAIN store
    /\ store[OwnKey].data = Marshal([serviceInfo EXCEPT !.Status = "healthy"])

\* ------------------------------------------ Connection Manager, part 2
\* C14: Initialize returns an error exactly when connecting the service
\* discovery failed.  When only the configuration client failed to connect,
\* Initialize returns no error and leaves the manager with a connected service
\* discovery, through which the accessors resolve peers.
C14_InitializeFailsOnlyOnDiscovery ==
    [][ cmLast'.op = "Initialize" =>
          /\ (cmLast'.err /= NoError) <=> ("serviceDiscovery.Connect" \in cmLast'.faults)
          /\ "configClient.Connect" \in cmLast'.faults =>
               /\ cmLast'.err = NoError
               /\ serviceDiscovery' = "set"
               /\ redisClient' = "open"
               /\ configClient' = "set"
      ]_vars

\* Initialize has returned without error although the configuration client
\* could not connect, with a peer registered for the accessors to resolve.
C14_Witness ==
    /\ cmLast.op = "Initialize"
    /\ cmLast.faults = {"configClient.Connect"}
    /\ cmLast.err = NoError
    /\ redisClient = "open"
    /\ Keys(store, discoverPattern("exchange-simulator")) /= {}

\* C15: Cleanup returns no error; when it returns the table is empty, every
\* connection that was in the table is shut down whether or not a Close
\* failed, a service discovery that exists has no open store client, and a
\* configuration client that exists has an empty cache.  The same holds after
\* a failed Initialize and for a second Cleanup.
C15_CleanupClosesEverything ==
    [][ cmLast'.op = "Cleanup" =>
          /\ cmLast'.err = NoError
          /\ connections' = << >>
          /\ \A conn \in Range(connections) : conns'[conn].state = "SHUTDOWN"
          /\ serviceDiscovery /= "nil" =>
               redisClient' = (IF redisClient = "nil" THEN "nil" ELSE "closed")
          /\ configClient /= "nil" => cache' = << >>
      ]_vars

\* Cleanup has returned after closing two table entries, one of whose Close
\* failed, and after disconnecting a connected service discovery.
C15_Witness ==
    /\ cmLast.op = "Cleanup"
    /\ cmLast.faults = {"conn.Close"}
    /\ connections = << >>
    /\ Len(conns) = 2
    /\ \A conn \in DOMAIN conns : conns[conn].state = "SHUTDOWN"
    /\ totalConnections = 2
    /\ redisClient = "closed"

\* ------------------------------------- Configuration Cache Client, part 2
\* C16: Disconnect returns no error and leaves the cache empty; a
\* GetConfiguration that directly follows it, with no other call in flight, is
\* a miss for every key, a key cached before the Disconnect included: the miss
\* counter goes up by one and the caller goes on to the remote fetch.
C16_DisconnectClearsCache ==
    [][ /\ cfgLast'.op = "Disconnect" =>
             /\ cfgLast'.err = "nil"
             /\ Cardinality(DOMAIN cache') = 0
        /\ \A c \in Callers :
             (LookupStep(c) /\ cfgLast.op = "Disconnect"
                /\ \A d \in Callers : cfgpc[d] = "idle") =>
               /\ ~cfgLast'.returned
               /\ ~cfgLast'.fromCache
               /\ cacheMisses' = cacheMisses + 1
               /\ cacheHits' = cacheHits
               /\ cfgpc'[c] = "fetching"
      ]_vars

\* A key that was cached when Disconnect was called has been looked up right
\* after the Disconnect and was a miss.
C16_Witness ==
    /\ cfgLast.op = "GetConfiguration"
    /\ cfgLast.after = "Disconnect"
    /\ ~cfgLast.returned
    /\ cfgpc[cfgLast.caller] = "fetching"
    /\ cacheMisses = 2
    /\ cacheHits = 0

\* C17: a GetConfiguration whose remote fetch fails returns an error and the
\* zero value, leaves the cache and both counters as they were at the fetch,
\* and was counted as one miss, and no hit, at its lookup.  The error for a
\* key the service does not have ("not found") differs from the error for any
\* other bad status.
C17_FailedFetchCachesNothing ==
    [][ \A c \in Callers :
          /\ (FetchStep(c) /\ cfgLast'.err /= "nil") =>
               /\ cfgLast'.value = NoConfigurationValue
               /\ cache' = cache
               /\ cacheHits' = cacheHits
               /\ cacheMisses' = cacheMisses
               /\ (cfgLast'.outcome = "answer" /\ remote[cfgLast'.key] = "none") =>
                     cfgLast'.err = "configuration key not found"
               /\ cfgLast'.outcome \in {"status_500", "status_503"} =>
                     /\ cfgLast'.err = "configuration service returned status"
                     /\ cfgLast'.err /= "configuration key not found"
          /\ (FetchStep(c) /\ cfgLast'.outcome /= "answer") => cfgLast'.err /= "nil"
          /\ (FetchStep(c) /\ remote[cfgLast'.key] = "none") => cfgLast'.err /= "nil"
          /\ (LookupStep(c) /\ ~cfgLast'.returned) =>
               /\ cacheMisses' = cacheMisses + 1
               /\ cacheHits' = cacheHits
      ]_vars

\* A miss on a key the service does not have has returned "not found": one
\* miss is counted and the cache is empty.
C17_Witness ==
    /\ cfgLast.op = "GetConfiguration"
    /\ cfgLast.returned
    /\ cfgLast.err = "configuration key not found"
    /\ cfgLast.key \notin DOMAIN cache
    /\ cacheMisses = 1
    /\ cacheHits = 0

\* C18: GetCacheStats reports the hit counter, the miss counter and the number
\* of entries of the cache map, expired ones included.  Its hit rate is hits
\* over hits plus misses, and 0 when there has been no lookup, so it lies
\* between 0 and 1.  The call changes nothing.
C18_CacheStats ==
    [][ cfgLast'.op = "GetCacheStats" =>
          LET stats == cfgLast'.stats
              rate == stats.HitRate
          IN  /\ stats.CacheHits = cacheHits
              /\ stats.CacheMisses = cacheMisses
              /\ stats.CacheSize = Cardinality(DOMAIN cache)
              /\ rate.den > 0
              /\ IF cacheHits + cacheMisses = 0
                 THEN rate.num = 0
                 ELSE rate.num * (cacheHits + cacheMisses) = cacheHits * rate.den
              /\ 0 <= rate.num /\ rate.num <= rate.den
              /\ UNCHANGED <<cache, cacheHits, cacheMisses, cfgpc, cfgKey>>
      ]_vars

\* Statistics have been read after one hit and two misses, with an expired
\* entry still counted in the size.
C18_Witness ==
    /\ cfgLast.op = "GetCacheStats"
    /\ cfgLast.stats.CacheHits = 1
    /\ cfgLast.stats.CacheMisses = 2
    /\ cfgLast.stats.HitRate = [num |-> 1, den |-> 3]
    /\ cfgLast.stats.CacheSize = 1
    /\ \E key \in DOMAIN cache : cache[key].expiresAt < now

\* C19: on a manager with a service discovery, DiscoverServices looks up
\* exactly the four fixed names, in their order, and returns without error the
\* concatenation, in that order, of the results of the names whose lookup
\* succeeded; a name whose lookup failed adds nothing.  It returns an error,
\* and no services, exactly when the manager has no service discovery.  The
\* call changes neither the manager nor the store.
C19_ManagerDiscoverServices ==
    [][ cmLast'.op = "DiscoverServices" =>
          /\ (cmLast'.err /= NoError) <=> (serviceDiscovery = "nil")
          /\ serviceDiscovery = "nil" =>
               /\ cmLast'.services = << >>
               /\ cmLast'.results = << >>
          /\ serviceDiscovery /= "nil" =>
               LET results == cmLast'.results
                   part(i) == IF results[i].err THEN << >> ELSE results[i].services
               IN  /\ Len(results) = 4
                   /\ results[1] \in discoveryResults("exchange-simulator")
                   /\ results[2] \in discoveryResults("audit-correlator")
                   /\ results[3] \in discoveryResults("custodian-simulator")
                   /\ results[4] \in discoveryResults("risk-monitor")
                   /\ cmLast'.services = part(1) \o part(2) \o part(3) \o part(4)
          /\ UNCHANGED <<cmRest, store, redisClient>>
      ]_vars

\* DiscoverServices has returned the instances of audit-correlator and
\* custodian-simulator, in that order, although the lookup of
\* exchange-simulator failed while an instance of it was registered.
C19_Witness ==
    /\ cmLast.op = "DiscoverServices"
    /\ cmLast.err = NoError
    /\ cmLast.results[1].err
    /\ Keys(store, discoverPattern("exchange-simulator")) /= {}
    /\ Len(cmLast.services) = 2
    /\ cmLast.services[1].Name = "audit-correlator"
    /\ cmLast.services[2].Name = "custodian-simulator"

ConversionOps == {"AsString", "AsInt", "AsBool"}

\* The texts that spell an integer, with the integer, and those that spell a
\* boolean, with the boolean.
IntegerOfText == [text \in {"24", "48", "-7", "1"} |->
                     CASE text = "24" -> 24 [] text = "48" -> 48
                       [] text = "-7" -> -7 [] text = "1" -> 1]
BooleanOfText == [text \in {"true", "false", "1"} |-> text \in {"true", "1"}]

\* C20: a conversion changes neither the cache, the counters nor a caller's
\* position (it starts no remote call), and its result is a function of the
\* value's raw text alone.  AsString returns the text; AsInt returns the
\* integer a text spells ("24" gives 24) and an error for any other text
\* ("abc"); AsBool returns the boolean a text spells ("true" gives TRUE) and
\* an error for any other text ("maybe").
C20_ConversionsArePure ==
    [][ cfgLast'.op \in ConversionOps =>
          LET text == cfgLast'.value.Value
              res == cfgLast'.conv
          IN  /\ UNCHANGED <<cache, cacheHits, cacheMisses, cfgpc, cfgKey, remote>>
              /\ cfgLast'.op = "AsString" => res.kind = "string" /\ res.str = text
              /\ cfgLast'.op = "AsInt" =>
                   IF text \in DOMAIN IntegerOfText
                   THEN res.kind = "int" /\ res.int = IntegerOfText[text]
                   ELSE res.kind = "error"
              /\ cfgLast'.op = "AsBool" =>
                   IF text \in DOMAIN BooleanOfText
                   THEN res.kind = "bool" /\ res.bool = BooleanOfText[text]
                   ELSE res.kind = "error"
              /\ \A cv \in ConvValues :
                   cv.Value = text =>
                     /\ AsString(cv) = AsString(cfgLast'.value)
                     /\ AsInt(cv) = AsInt(cfgLast'.value)
                     /\ AsBool(cv) = AsBool(cfgLast'.value)
      ]_vars

\* AsInt has failed on "abc", a value declared a number, while the cache holds
\* an entry and a miss is counted.
C20_Witness ==
    /\ cfgLast.op = "AsInt"
    /\ cfgLast.value.Value = "abc"
    /\ cfgLast.value.Type = "number"
    /\ cfgLast.conv.kind = "error"
    /\ cache /= << >>
    /\ cacheMisses = 1

\* C21: until GracefulStop is called the health service reports SERVING for
\* the empty name, the configured service name, "custodian" and "settlement";
\* when GracefulStop stops the server all four are NOT_SERVING; and a status
\* that is NOT_SERVING never returns to SERVING.
C21_HealthServingUntilStop ==
    /\ [](grpcpc = "running" =>
            \A n \in Range(healthServices(config)) : healthSrv[n] = "SERVING")
    /\ [](grpcpc = "stopped" =>
            \A n \in Range(healthServices(config)) : healthSrv[n] = "NOT_SERVING")
    /\ [][\A n \in DOMAIN healthSrv :
            healthSrv[n] = "NOT_SERVING" => healthSrv'[n] = "NOT_SERVING"]_vars
    /\ [][grpcLast'.op = "Check" /\ grpcpc' = "running" /\ grpcLast'.service /= "unknown"
            => grpcLast'.status = "SERVING" /\ grpcLast'.err = "nil"]_vars

\* GracefulStop has stopped a server that was serving.
C21_Witness ==
    /\ grpcpc = "stopped"
    /\ serve = "returned"
    /\ \A n \in Range(healthServices(config)) : healthSrv[n] = "NOT_SERVING"

\* C22: a call for a name whose table entry is in a transport state other
\* than ready or idle never returns that entry's connection: the call closes
\* the connection, runs its discovery query, and leaves the table either with
\* another connection under the name (the one it dialed) or, when discovery or
\* the dial has failed, with no entry for the name.
C22_StaleEntryIsEvicted ==
    [][ (AccessorStep /\ cmLast'.state \in ConnStates \ {"READY", "IDLE"}) =>
          LET name == cmLast'.name
              old == connections[name]
          IN  /\ cmLast'.conn /= old
              /\ conns'[old].state = "SHUTDOWN"
              /\ old \notin Range(connections')
              /\ cmLast'.queries = 1
              /\ IF cmLast'.err = NoError
                 THEN /\ connections'[name] = cmLast'.conn
                      /\ cmLast'.conn = Len(conns) + 1
                 ELSE /\ name \notin DOMAIN connections'
                      /\ cmLast'.conn = 0
      ]_vars

\* A call has found its name's entry in transient failure, and its discovery
\* has found no instance: the entry is gone and its connection closed.
C22_Witness ==
    /\ cmLast.op \in AccessorOps
    /\ cmLast.state = "TRANSIENT_FAILURE"
    /\ cmLast.err /= NoError
    /\ cmLast.err.Cause = "no instances found"
    /\ cmLast.name \notin DOMAIN connections
    /\ \E c \in DOMAIN conns : conns[c].state = "SHUTDOWN"

\* C23: a call that is not served from the table and whose discovery query
\* returns one record at least makes one dial and no more; when the dial
\* succeeds, the connection it returns is a new one whose target is host:port
\* of the first record's host and gRPC port, the table holds it under the
\* requested name, and the active and total counters are one higher each
\* while the failed counter stays.
C23_MissDialsFirstRecord ==
    [][ (AccessorStep /\ cmLast'.queries = 1 /\ ~cmLast'.disc.err
           /\ Len(cmLast'.disc.services) > 0) =>
          LET first == cmLast'.disc.services[1]
              conn == cmLast'.conn
          IN  /\ cmLast'.dials = 1
              /\ Len(conns') <= Len(conns) + 1
              /\ cmLast'.err = NoError =>
                   /\ conn = Len(conns) + 1
                   /\ conns'[conn].target = <<first.Host, ":", Itoa(first.GRPCPort)>>
                   /\ connections'[cmLast'.name] = conn
                   /\ activeConnections' = activeConnections + 1
                   /\ totalConnections' = totalConnections + 1
                   /\ failedConnections' = failedConnections
      ]_vars

\* A call has dialed the first of two records that discovery returned for its
\* name, and the table holds the new connection.
C23_Witness ==
    /\ cmLast.op \in AccessorOps
    /\ cmLast.err = NoError
    /\ cmLast.dials = 1
    /\ Len(cmLast.disc.services) = 2
    /\ cmLast.disc.services[1].GRPCPort /= cmLast.disc.services[2].GRPCPort
    /\ connections[cmLast.name] = cmLast.conn
    /\ activeConnections = 1
    /\ totalConnections = 1
    /\ failedConnections = 0

\* C24: once the loop's context is cancelled, or Disconnect has sent the stop
\* signal to the started loop, no sendHeartbeat of the loop changes the store.
C24_NoWriteAfterStop ==
    [][ (hbpc = "send" /\ hbpc' /= "send" /\ (ctxDone \/ stopIssued)) =>
          store' = store ]_vars

\* C25: a running loop whose context is cancelled, or to which Disconnect has
\* sent the stop signal, eventually returns.
C25_HeartbeatTerminates ==
    ((ctxDone \/ stopIssued) /\ HeartbeatRunning) ~> (hbpc = "done")

\* C26: every sendHeartbeat, failed or not, leaves the loop at its select; a
\* parked loop whose tick falls due goes on to a heartbeat; and the loop
\* returns in two steps only: its select with the context cancelled, or the
\* stop signal of Disconnect reaching it parked in its select.
C26_FailedHeartbeatKeepsLoop ==
    /\ [][(hbpc = "send" /\ hbpc' /= "send") => hbpc' = "select"]_vars
    /\ [][(hbpc = "parked" /\ hbpc' = "parked" /\ now' /= now) => nextTick /= now']_vars
    /\ [][(hbpc /= "done" /\ hbpc' = "done") =>
            \/ hbpc = "select" /\ ctxDone
            \/ hbpc = "parked" /\ dpc = "idle" /\ dpc' = "unregister"]_vars

\* The loop is at a heartbeat again after an earlier heartbeat of it has
\* failed: no write has ever succeeded, and the record's LastSeen, which only
\* a heartbeat sets without forcing the status, is of an earlier instant.
C26_Witness ==
    /\ hbpc = "send"
    /\ ~ctxDone
    /\ ~everWritten
    /\ serviceInfo.Status = "starting"
    /\ serviceInfo.LastSeen > 0
    /\ serviceInfo.LastSeen < now

\* C27: a heartbeat that writes to the store writes what RegisterService would
\* write at that instant: under this process's key, the record with its
\* timestamp set to the current instant and its status "healthy", expiring
\* serviceKeyTTL later.
C27_HeartbeatWritesAsRegister ==
    [][ (HeartbeatStep /\ store' /= store) =>
          /\ OwnKey \in DOMAIN store'
          /\ store'[OwnKey].expiresAt = now + serviceKeyTTL
          /\ ~Unmarshal(store'[OwnKey].data).err
          /\ Unmarshal(store'[OwnKey].data).val.LastSeen = now
          /\ Unmarshal(store'[OwnKey].data).val.Status = "healthy"
      ]_vars

\* C29: Cleanup lowers the active counter by the number of table entries it
\* closes, so that a GetConnectionStats that follows a Cleanup reports an
\* active count of 0 for the empty table.
C29_CleanupLowersActive ==
    [][ /\ cmLast'.op = "Cleanup" =>
             activeConnections' = activeConnections - Cardinality(DOMAIN connections)
        /\ (cmLast'.op = "GetConnectionStats" /\ cmLast'.after = "Cleanup") =>
             cmLast'.stats.ActiveConnections = 0
      ]_vars

\* ------------------------------ Connection Manager, statement by statement
\* C28: no step of any goroutine in the manager lowers the total or the failed
\* counter, and every step that changes one of the three counters is taken by
\* the goroutine that holds the statistics mutex locked, with no reader in it.
C28_CountersMonotoneUnderLock ==
    [][ /\ totalConnections' >= totalConnections
        /\ failedConnections' >= failedConnections
        /\ <<activeConnections, totalConnections, failedConnections>>'
             /= <<activeConnections, totalConnections, failedConnections>> =>
             /\ statsMutex.writer \in Goroutines
             /\ statsMutex.readers = {}
             /\ mcall'[statsMutex.writer] /= mcall[statsMutex.writer]
             /\ \A g \in Goroutines \ {statsMutex.writer} : mcall'[g] = mcall[g]
      ]_vars

\* A goroutine that has dialed and raised the active counter is about to
\* raise the total counter under the statistics mutex, after a failed call
\* has been counted.
C28_Witness ==
    \E g \in Goroutines :
        /\ mcall[g].pc = "totalConnections++"
        /\ statsMutex.writer = g
        /\ connectionsMutex.writer = g
        /\ failedConnections = 1
        /\ activeConnections = 1
        /\ totalConnections = 0

\* C30: a goroutine that looks its name up in the table, or returns the entry
\* it found there, holds the table's mutex read-locked and not locked.
C30_PoolHitHoldsSharedLock ==
    \A g \in Goroutines :
        (mcall[g].pc = "check" \/ (mcall[g].pc = "return" /\ mcall[g].queries = 0)) =>
            /\ g \in connectionsMutex.readers
            /\ connectionsMutex.writer /= g

\* C31: GetConnectionStats depends on the statistics mutex alone.  A goroutine
\* outside the manager can start it whenever no goroutine holds the statistics
\* mutex locked, whoever holds the table's mutex; once started it can always
\* complete; and its two steps leave the table's mutex as it is.
C31_StatsNeverWaitForTable ==
    /\ [](\A g \in Goroutines :
            /\ (mcall[g].pc = "idle" /\ statsMutex.writer = 0) =>
                 ENABLED GetConnectionStatsRLock(g)
            /\ mcall[g].pc = "stats" => ENABLED GetConnectionStatsRead(g))
    /\ [][\A g \in Goroutines :
            (mcall[g].pc = "stats" \/ mcall'[g].pc = "stats") =>
               /\ connectionsMutex.writer /= g
               /\ connectionsMutex'.writer /= g
               /\ g \notin connectionsMutex.readers]_vars

\* A GetConnectionStats has started and completed while the other goroutine
\* held the table's mutex in its dial.
C31_Witness ==
    /\ cmLast.op = "GetConnectionStats"
    /\ cmLast.state = "dial"
    /\ cmLast.after = "dial"
    /\ \E g \in Goroutines : mcall[g].pc = "dial" /\ connectionsMutex.writer = g

\* C32: once Disconnect has issued its DEL and this process's key is absent
\* from the store, no sendHeartbeat of the loop puts the key back.
C32_NoWriteBackAfterDelete ==
    [][ (/\ dpc = "close"
         /\ disconnectKey(serviceInfo) \notin DOMAIN store
         /\ hbpc = "send"
         /\ hbpc' /= "send") =>
          disconnectKey(serviceInfo') \notin DOMAIN store' ]_vars

\* C33: the snapshot a GetConnectionStats returns never shows more active
\* connections than connections ever opened.
C33_SnapshotActiveAtMostTotal ==
    cmLast.op = "GetConnectionStats" =>
        cmLast.stats.ActiveConnections <= cmLast.stats.TotalConnections

\* No call on the manager is in progress.
Quiescent == \A g \in Goroutines : mcall[g].pc = "idle"

\* C34: whenever no call is in progress the active counter is the number of
\* entries of the connection table.
C34_ActiveIsTableSize ==
    Quiescent => activeConnections = Cardinality(DOMAIN connections)

\* The connections the manager has dialed and not closed.
OpenConns == {i \in DOMAIN conns : conns[i].state /= "SHUTDOWN"}

\* The goroutines that have dialed a connection and not yet stored it.
Storing == {g \in Goroutines : mcall[g].pc = "store"}

\* C35: every connection the manager has opened and not closed is the table
\* entry of one name, or is in the hands of the one call that has just dialed
\* it for a name without an entry and is about to store it; no two names share
\* a connection.  Hence no name has two open connections.
C35_OneOpenConnectionPerName ==
    /\ \A i \in OpenConns :
          \/ \E n \in DOMAIN connections : connections[n] = i
          \/ \E g \in Storing : mcall[g].conn = i
    /\ \A n, m \in DOMAIN connections : connections[n] = connections[m] => n = m
    /\ \A g \in Storing :
          /\ mcall[g].name \notin DOMAIN connections
          /\ Storing = {g}
          /\ connectionsMutex.writer = g

\* A stale entry was closed and replaced: of the two connections dialed for
\* the name the first is shut down and the second is the entry, while the other
\* goroutine waits for the table's mutex held by a third call for the name.
C35_Witness ==
    /\ Len(conns) = 2
    /\ conns[1].state = "SHUTDOWN"
    /\ conns[2].state /= "SHUTDOWN"
    /\ connections = [n \in {"exchange-simulator"} |-> 2]
    /\ \E g \in Goroutines :
          /\ mcall[g].pc = "check"
          /\ mcall[g].name = "exchange-simulator"
          /\ connectionsMutex.writer = g

\* The five mutexes by name.
Mutexes ==
    [table |-> connectionsMutex, pool |-> poolMutex, stats |-> statsMutex,
     cacheStats |-> cfgStatsMutex, cache |-> cacheMutex]

\* The goroutines that hold a mutex, locked or read-locked.
Holders(m) == ({m.writer} \ {0}) \cup m.readers

\* The order in which the code nests its locks: the table's mutex outermost,
\* the cache's mutex innermost.
LockRank == [table |-> 1, pool |-> 2, stats |-> 2, cacheStats |-> 2, cache |-> 3]

\* The mutex a goroutine is about to take at its position, if any.
Awaited(g) ==
    IF mcall[g].pc \in IncrementFunctions THEN {"stats"}
    ELSE IF mcall[g].pc = "poolLock" THEN {"pool"}
    ELSE IF mcall[g].pc = "configDisconnect" /\ configClient /= "nil" THEN {"cache"}
    ELSE IF ccall[g].pc \in {"incrementCacheHits", "incrementCacheMisses"}
         THEN {"cacheStats"}
    ELSE IF ccall[g].pc \in {"cacheValue", "cacheSize"} THEN {"cache"}
    ELSE {}

\* The goroutine is inside a call of the manager or of the configuration client.
InCall(g) == mcall[g].pc /= "idle" \/ ccall[g].pc /= "idle"

\* The next statement of the goroutine's call.
CallStep(g) ==
    \/ getServiceConnectionCheck(g)
    \/ getServiceConnectionDiscover(g)
    \/ getServiceConnectionDial(g)
    \/ getServiceConnectionStore(g)
    \/ incrementLock(g)
    \/ incrementActiveConnections(g)
    \/ incrementTotalConnections(g)
    \/ incrementFailedConnections(g)
    \/ getServiceConnectionReturn(g)
    \/ GetConnectionStatsRead(g)
    \/ CleanupClose(g)
    \/ CleanupPoolLock(g)
    \/ CleanupPoolUnlock(g)
    \/ CleanupDisconnect(g)
    \/ CleanupConfigDisconnect(g)
    \/ CleanupConfigClear(g)
    \/ getCachedValueRead(g)
    \/ cacheIncrementLock(g)
    \/ incrementCacheHits(g)
    \/ incrementCacheMisses(g)
    \/ fetchConfigurationCall(g)
    \/ cacheValueLock(g)
    \/ cacheValueStore(g)
    \/ GetCacheStatsCacheRLock(g)
    \/ GetCacheStatsRead(g)
    \/ ConfigDisconnectClear(g)

\* C36: the locks are taken in one order and no call is ever stuck.  A
\* goroutine about to take a mutex holds only mutexes that come before it in
\* the order; every mutex is held by goroutines inside a call; and every
\* goroutine inside a call can take its next step, or waits for a mutex held
\* by another goroutine that can take its next step.
C36_NoDeadlock ==
    /\ \A g \in Goroutines : \A a \in Awaited(g) : \A l \in DOMAIN Mutexes :
          g \in Holders(Mutexes[l]) => LockRank[l] < LockRank[a]
    /\ \A l \in DOMAIN Mutexes : \A h \in Holders(Mutexes[l]) : InCall(h)
    /\ \A g \in Goroutines :
          InCall(g) =>
             \/ ENABLED CallStep(g)
             \/ \E a \in Awaited(g) : \E h \in Holders(Mutexes[a]) \ {g} :
                   ENABLED CallStep(h)

\* Cleanup, holding the table's mutex, waits for the cache's mutex, which a
\* GetCacheStats holds read-locked inside the statistics mutex.
C36_Witness ==
    \E g, h \in Goroutines :
        /\ mcall[g].pc = "configDisconnect"
        /\ configClient /= "nil"
        /\ connectionsMutex.writer = g
        /\ ccall[h].pc = "cacheStats"
        /\ h \in cacheMutex.readers
        /\ h \in cfgStatsMutex.readers
        /\ ~ ENABLED CallStep(g)

\* C37: a GetConfiguration that was in flight when Disconnect returned does
\* not put a value into the cache that Disconnect has just emptied.
C37_InFlightFetchKeepsCacheEmpty ==
    [][ (/\ cfgLast.op = "Disconnect"
         /\ cache = << >>
         /\ \E c \in Callers : cfgpc[c] = "fetching" /\ cfgpc'[c] = "idle") =>
          cache' = << >> ]_vars

\* The GetConfiguration calls that have started and not yet counted their
\* lookup as a hit or a miss.
Uncounted ==
    {g \in Goroutines :
        ccall[g].pc \in {"getCachedValue", "incrementCacheHits",
                         "incrementCacheMisses", "cacheHits++", "cacheMisses++"}}

\* C38: every GetConfiguration counts once, as a hit or as a miss, whether its
\* fetch succeeds or fails: the two counters add up to the calls made less the
\* calls that have not counted yet, so to the calls made whenever no call is
\* in progress; a step raises at most one counter, by one; and the Disconnect
\* of the client, called directly or by Cleanup, leaves both counters alone.
C38_EveryCallCountsOnce ==
    /\ [](cacheHits + cacheMisses = cfgCalls - Cardinality(Uncounted))
    /\ [][ /\ cacheHits' \in {cacheHits, cacheHits + 1}
           /\ cacheMisses' \in {cacheMisses, cacheMisses + 1}
           /\ cacheHits' + cacheMisses' <= cacheHits + cacheMisses + 1
           /\ (cfgLast'.op = "Disconnect" \/ cmLast'.op = "Cleanup") =>
                 UNCHANGED <<cacheHits, cacheMisses>> ]_vars

\* Three calls were made, one that missed and failed or stored, one that
\* missed, one that hit; a Disconnect has then emptied the cache, and no call
\* is in progress.
C38_Witness ==
    /\ cfgCalls = 3
    /\ cacheHits = 1
    /\ cacheMisses = 2
    /\ cfgLast.op = "Disconnect"
    /\ cache = << >>
    /\ \A g \in Goroutines : ~InCall(g)

\* The sum of the accounts' balances of an asset.
RECURSIVE SumOver(_, _, _)
SumOver(bals, asset, ids) ==
    IF ids = {} THEN Fin(0)
    ELSE LET a == CHOOSE x \in ids : TRUE
         IN  fadd(balanceOf(bals, a, asset), SumOver(bals, asset, ids \ {a}))

totalOf(bals, asset) == SumOver(bals, asset, DOMAIN bals)

\* The step is a settlement or a transfer.
SettlementStep == ledgerLast'.op \in {"ProcessSettlement", "Transfer"}

\* C39: no call of the custodian service changes the sum of an asset's
\* balances; a settlement or transfer that fails changes no balance; and one
\* that succeeds between two accounts takes the amount from the source and
\* adds it to the destination.
C39_AssetTotalConserved ==
    [][ /\ \A asset \in Assets : totalOf(balances', asset) = totalOf(balances, asset)
        /\ (SettlementStep /\ ledgerLast'.err /= "nil") => balances' = balances
        /\ (/\ SettlementStep
            /\ ledgerLast'.err = "nil"
            /\ ledgerLast'.settlement.FromAccount /= ledgerLast'.settlement.ToAccount) =>
              LET s == ledgerLast'.settlement
              IN  /\ balanceOf(balances', s.FromAccount, s.AssetID) =
                       fsub(balanceOf(balances, s.FromAccount, s.AssetID), s.Amount)
                  /\ balanceOf(balances', s.ToAccount, s.AssetID) =
                       fadd(balanceOf(balances, s.ToAccount, s.AssetID), s.Amount)
      ]_vars

\* C40: no account holds a negative balance of any asset.
C40_NoNegativeBalance ==
    \A a \in DOMAIN balances : \A asset \in DOMAIN balances[a] :
        ~ fless(balances[a][asset], Fin(0))

====
